---- MODULE Spec2Model ----
(***************************************************************************)
(* A model of the firecracker-containerd shim (runtime/service.go): the    *)
(* task-service handlers Create, Start, Kill and Shutdown, the VM boot     *)
(* sequence startVM with the vsock CID allocator, and the state monitor.   *)
(* Handlers run concurrently, one thread per call; a handler is cut into   *)
(* steps at its external calls (ioctl, hypervisor API, agent RPC), which   *)
(* is where the Go scheduler can interleave other handlers.                *)
(*                                                                         *)
(* Further parts have specifications of their own: the retry loop of       *)
(* dialVsock (SpecDial), the thin-pool snapshotter of unnamed/part_000     *)
(* and snapshotter/devmapper/devmapper.go over its MetaStore and pool      *)
(* (SpecSnap), StartShim (SpecStart), the handlers that hand their request *)
(* to the agent (SpecPass), and the stdio proxies with the task they       *)
(* belong to (SpecIO, and FairSpecIO with the goroutines' fairness).       *)
(***************************************************************************)
EXTENDS Integers, Sequences, FiniteSets, TLC

\* Number of task-service calls the host daemon issues to one shim.
MaxCalls == 3

\* First CID tried by the allocator (0, 1 and 2 are reserved).
startCID == 3

\* Exclusive upper limit of the CID scan; math.MaxUint32 in the source,
\* scaled down so that the scan can be exhausted.
maxCID == 5

Calls == 1..MaxCalls

\* The state monitor spawned by call i runs as thread Mon(i).
Mon(i) == MaxCalls + i

Monitors == {Mon(i) : i \in Calls}

Threads == Calls \cup Monitors

VARIABLES
    agentStarted,  \* service.agentStarted
    agentClient,   \* service.agentClient: 0 is nil, i the client made by call i
    machine,       \* service.machine: 0 is nil, i the machine made by call i
    machineCID,    \* service.machineCID
    ctx,           \* service.ctx and service.cancel: 0 is nil, i the context made by call i
    cancelled,     \* the per-task contexts whose cancel function has run
    serverClosed,  \* service.server has been closed
    proc,          \* the shim process: "running", "exited" (os.Exit) or "panicked"
    vm,            \* the hypervisor side of each machine object
    fileCID,       \* CID reserved on the /dev/vhost-vsock handle each call holds open
    th,            \* the threads: handlers of calls, and state monitors
    published,     \* number of TaskExit events published on the host bus
    taskStopped,   \* the guest task has exited (what the agent reports in State)
    dial,          \* one call of dialVsock: its locals, its result, what it did
    impl,          \* which snapshotter source file runs: Snapshotter or devmapper
    store,         \* the MetaStore: committed records, id sequence, open flag, Close calls
    writer,        \* the snapshotter call that holds the writable transaction, 0 if none
    pool,          \* the thin-pool: its devices and how often it was closed
    closeOnce,     \* Snapshotter.closeOnce has fired
    ops,           \* the snapshotter calls
    starts,        \* the runs of StartShim: their locals, and the child each started
    proxies        \* the stdio proxies of the task: their fifo, connection and copy

shimVars == <<agentStarted, agentClient, machine, machineCID, ctx, cancelled,
              serverClosed, proc, vm, fileCID, th, published, taskStopped>>

snapVars == <<impl, store, writer, pool, closeOnce, ops>>

vars == <<agentStarted, agentClient, machine, machineCID, ctx, cancelled,
          serverClosed, proc, vm, fileCID, th, published, taskStopped,
          dial, impl, store, writer, pool, closeOnce, ops, starts, proxies>>

svc == <<agentStarted, agentClient, machine, machineCID, ctx>>

----------------------------------------------------------------------------
\* Helpers on step traces.

Has(s, e) == \E k \in 1..Len(s) : s[k] = e

Count(s, e) == Cardinality({k \in 1..Len(s) : s[k] = e})

\* every occurrence of a precedes every occurrence of b
Before(s, a, b) == \A k \in 1..Len(s) : \A l \in 1..Len(s) : (s[k] = a /\ s[l] = b) => k < l

----------------------------------------------------------------------------
\* req is the caller's request, sent the request handed to the agent, got
\* what the agent returned, status the exit status in the response.
idleThread == [op |-> "none", pc |-> "idle", fs |-> "none", contextID |-> 0, cid |-> 0,
               agentErr |-> FALSE, stopErr |-> FALSE, ret |-> "none", trace |-> <<>>, mctx |-> 0,
               req |-> "", sent |-> "", got |-> "", status |-> 0]

noVM == [state |-> "none", cid |-> 0, holds |-> FALSE]

\* dialVsock, lines 519-523: the number of attempts, the first delay in
\* milliseconds and the factor the delay grows by.
retryCount == 5

initialDelay == 100

delayMultiplier == 2

\* The locals of dialVsock before its loop, lines 525-528; dials, slept and
\* errs record the Dial calls made, the sleeps taken and the errors got.
\* ctxDone: the context dialVsock was called with is cancelled; late counts
\* the Dial calls made after that.
dialStart == [pc |-> "loop", i |-> 1, currentDelay |-> initialDelay, lastErr |-> "nil",
              ret |-> "none", dials |-> 0, slept |-> <<>>, errs |-> <<>>,
              ctxDone |-> FALSE, late |-> 0]

\* Number of calls made to one snapshotter.
MaxOps == 2

SnapOps == 1..MaxOps

\* Snapshot keys and names the callers use.
CallKeys == {"a", "b"}

\* The keys the MetaStore can hold: those, and the key of a snapshot that
\* an earlier run left.
Keys == CallKeys \cup {"c"}

\* The two source files of the snapshotter.
Impls == {"Snapshotter", "devmapper"}

\* The zero value of storage.Snapshot, and the absent record.
noRec == [id |-> 0, kind |-> "Unknown", parents |-> <<>>, label |-> ""]

\* No transaction.
noTx == [recs |-> [k \in Keys |-> noRec], seq |-> 0]

\* config.PoolName.
PoolName == "pool"

\* getDeviceName: fmt.Sprintf("%s-snap-%s", PoolName, snapID).
getDeviceName(snapID) == <<PoolName, "snap", snapID>>

\* What the metadata file and the pool can hold when the snapshotter is
\* started: nothing; the committed snapshot "b" of an earlier run with its
\* formatted device; or the committed snapshot "c" and its committed child
\* "b" with their devices.
Disks ==
    {[recs |-> [k \in Keys |-> noRec], seq |-> 0, devices |-> {}],
     [recs |-> [k \in Keys |-> IF k = "b" THEN [id |-> 1, kind |-> "Committed", parents |-> <<>>,
                                                 label |-> ""]
                                ELSE noRec],
      seq |-> 1,
      devices |-> {[name |-> getDeviceName(1), parent |-> <<>>, fs |-> TRUE]}],
     [recs |-> [k \in Keys |-> IF k = "c" THEN [id |-> 1, kind |-> "Committed", parents |-> <<>>,
                                                 label |-> ""]
                                ELSE IF k = "b" THEN [id |-> 2, kind |-> "Committed",
                                                      parents |-> <<1>>, label |-> ""]
                                ELSE noRec],
      seq |-> 2,
      devices |-> {[name |-> getDeviceName(1), parent |-> <<>>, fs |-> TRUE],
                   [name |-> getDeviceName(2), parent |-> getDeviceName(1), fs |-> TRUE]}]}

\* A call slot: ret is the returned error as the list of the errors it
\* aggregates (empty for nil), mounts the returned mounts, trace its steps.
\* info is the returned snapshots.Info, walked the records a Walk handed to
\* its callback.  tx is the view of the store its transaction works on;
\* body is the error the body of the transaction returned; fresh and conc
\* record whether the key was absent, and which calls were running, when the
\* call arrived.
idleOp == [op |-> "none", pc |-> "idle", key |-> "", arg |-> "", ret |-> <<>>,
           mounts |-> <<>>, info |-> noRec, walked |-> {}, trace |-> <<>>, tx |-> noTx,
           body |-> <<>>, fresh |-> FALSE, conc |-> {}]

\* NewSnapshotter, part_000 lines 57-87: opens the MetaStore and the pool.
snapInit(impls, disks) ==
    /\ impl \in impls
    /\ \E d \in disks :
          /\ store = [recs |-> d.recs, seq |-> d.seq, open |-> TRUE, closes |-> 0]
          /\ pool = [devices |-> d.devices, closes |-> 0]
    /\ writer = 0
    /\ closeOnce = FALSE
    /\ ops = [o \in SnapOps |-> idleOp]

\* Number of runs of StartShim.
MaxStarts == 2

Starts == 1..MaxStarts

\* The task ids StartShim is run for.
TaskIds == {"t1", "t2"}

\* A run of StartShim before it is made.  err is the variable err of the
\* function's scope, ret the error returned; socket and file are the
\* listening socket and its file, child the process cmd.Start started.
startIdle == [pc |-> "idle", id |-> "", err |-> "nil", ret |-> "none", address |-> <<>>,
              socket |-> "none", file |-> "none", child |-> "none",
              pidFile |-> FALSE, addressFile |-> FALSE, score |-> FALSE, trace |-> <<>>]

\* The three stdio streams of a task, proxyStdio lines 250-254.
Streams == {"stdin", "stdout", "stderr"}

\* A proxy that was not spawned.
noProxy == [pc |-> "none", path |-> "", in |-> FALSE, mctx |-> 0, fifo |-> "none",
            conn |-> "none", copy |-> "none", closer |-> "none"]

shimInit ==
    /\ agentStarted = FALSE
    /\ agentClient = 0
    /\ machine = 0
    /\ machineCID = 0
    /\ ctx = 0
    /\ cancelled = {}
    /\ serverClosed = FALSE
    /\ proc = "running"
    /\ vm = [i \in Calls |-> noVM]
    /\ fileCID = [i \in Calls |-> 0]
    /\ th = [t \in Threads |-> idleThread]
    /\ published = 0
    /\ taskStopped = FALSE

Init ==
    /\ shimInit
    /\ dial = dialStart
    /\ starts = [s \in Starts |-> startIdle]
    /\ proxies = [p \in Streams |-> noProxy]
    /\ snapInit({"Snapshotter"}, {[recs |-> noTx.recs, seq |-> 0, devices |-> {}]})

\* The host daemon can issue call i: the shim serves requests, and calls are
\* numbered in the order they arrive.
CanCall(i) ==
    /\ proc = "running"
    /\ ~serverClosed
    /\ th[i].op = "none"
    /\ (i > 1 => th[i - 1].op # "none")

Running(t, p) == proc = "running" /\ th[t].pc = p

\* A nil dereference in a handler: the Go runtime aborts the process.
Panic(t, op, steps) ==
    /\ th' = [th EXCEPT ![t].op = op, ![t].pc = "panicked", ![t].ret = "panic",
                        ![t].trace = th[t].trace \o steps]
    /\ proc' = "panicked"

\* The kernel refuses VHOST_VSOCK_SET_GUEST_CID for a CID that another open
\* vhost-vsock handle holds: the allocator handle of another call, or a VM.
CidInUse(c, i) ==
    \/ \E j \in Calls \ {i} : fileCID[j] = c
    \/ \E j \in Calls : vm[j].holds /\ vm[j].cid = c

\* service.stopVM on the current machine: StopVMM succeeds or fails.
stopVM(ok) ==
    IF ok THEN [vm EXCEPT ![machine].state = "stopped", ![machine].holds = FALSE] ELSE vm

----------------------------------------------------------------------------
\* Create, lines 159-180, and the head of findNextAvailableVsockCID, 559-566.
\* The handler reads agentStarted without a lock; when the VM is not started
\* it enters startVM, whose first step opens the vsock device.
Create(i, fs, openOk) ==
    /\ UNCHANGED <<dial, snapVars, starts, proxies>>
    /\ CanCall(i)
    /\ IF agentStarted
         THEN th' = [th EXCEPT ![i].op = "Create", ![i].fs = fs, ![i].pc = "create_agent"]
         ELSE IF openOk
                THEN th' = [th EXCEPT ![i].op = "Create", ![i].fs = fs, ![i].pc = "fc_scan",
                                      ![i].contextID = startCID, ![i].trace = <<"startVM">>]
                ELSE th' = [th EXCEPT ![i].op = "Create", ![i].fs = fs, ![i].pc = "done",
                                      ![i].ret = "err_open", ![i].trace = <<"startVM">>]
    /\ UNCHANGED <<svc, cancelled, serverClosed, proc, vm, fileCID, published, taskStopped>>

\* findNextAvailableVsockCID that goes on to the next CID on every errno.
findNextAvailableVsockCID_SkipOnAnyError(i, ctxDone, eother) ==
    /\ UNCHANGED <<dial, snapVars, starts, proxies>>
    /\ Running(i, "fc_scan")
    /\ UNCHANGED <<svc, cancelled, serverClosed, proc, vm, published, taskStopped>>
    /\ IF ~(th[i].contextID < maxCID)
         THEN /\ th' = [th EXCEPT ![i].pc = "done", ![i].ret = "err_nocid"]
              /\ fileCID' = [fileCID EXCEPT ![i] = 0]
         ELSE IF ctxDone
           THEN /\ th' = [th EXCEPT ![i].pc = "done", ![i].ret = "err_ctx"]
                /\ fileCID' = [fileCID EXCEPT ![i] = 0]
           ELSE IF eother
             THEN /\ th' = [th EXCEPT ![i].contextID = th[i].contextID + 1,
                                      ![i].trace = th[i].trace \o <<"ioctl">>]
                  /\ UNCHANGED fileCID
             ELSE IF CidInUse(th[i].contextID, i)
               THEN /\ th' = [th EXCEPT ![i].contextID = th[i].contextID + 1,
                                        ![i].trace = th[i].trace \o <<"ioctl">>]
                    /\ UNCHANGED fileCID
               ELSE /\ th' = [th EXCEPT ![i].pc = "fc_close",
                                        ![i].trace = th[i].trace \o <<"ioctl">>]
                    /\ fileCID' = [fileCID EXCEPT ![i] = th[i].contextID]

\* findNextAvailableVsockCID whose scan includes maxCID itself.
findNextAvailableVsockCID_InclusiveLimit(i, ctxDone, eother) ==
    /\ UNCHANGED <<dial, snapVars, starts, proxies>>
    /\ Running(i, "fc_scan")
    /\ UNCHANGED <<svc, cancelled, serverClosed, proc, vm, published, taskStopped>>
    /\ IF ~(th[i].contextID <= maxCID)
         THEN /\ th' = [th EXCEPT ![i].pc = "done", ![i].ret = "err_nocid"]
              /\ fileCID' = [fileCID EXCEPT ![i] = 0]
         ELSE IF ctxDone
           THEN /\ th' = [th EXCEPT ![i].pc = "done", ![i].ret = "err_ctx"]
                /\ fileCID' = [fileCID EXCEPT ![i] = 0]
           ELSE IF eother
             THEN /\ th' = [th EXCEPT ![i].pc = "done", ![i].ret = "err_ioctl",
                                      ![i].trace = th[i].trace \o <<"ioctl">>]
                  /\ fileCID' = [fileCID EXCEPT ![i] = 0]
             ELSE IF CidInUse(th[i].contextID, i)
               THEN /\ th' = [th EXCEPT ![i].contextID = th[i].contextID + 1,
                                        ![i].trace = th[i].trace \o <<"ioctl">>]
                    /\ UNCHANGED fileCID
               ELSE /\ th' = [th EXCEPT ![i].pc = "fc_close",
                                        ![i].trace = th[i].trace \o <<"ioctl">>]
                    /\ fileCID' = [fileCID EXCEPT ![i] = th[i].contextID]

\* One iteration of the scan loop of findNextAvailableVsockCID, lines 566-591.
\* ctxDone: the select finds the request context cancelled.
\* eother: the ioctl fails with an errno other than EADDRINUSE.
findNextAvailableVsockCID(i, ctxDone, eother) ==
    /\ UNCHANGED <<dial, snapVars, starts, proxies>>
    /\ Running(i, "fc_scan")
    /\ UNCHANGED <<svc, cancelled, serverClosed, proc, vm, published, taskStopped>>
    /\ IF ~(th[i].contextID < maxCID)
         THEN /\ th' = [th EXCEPT ![i].pc = "done", ![i].ret = "err_nocid"]
              /\ fileCID' = [fileCID EXCEPT ![i] = 0]
         ELSE IF ctxDone
           THEN /\ th' = [th EXCEPT ![i].pc = "done", ![i].ret = "err_ctx"]
                /\ fileCID' = [fileCID EXCEPT ![i] = 0]
           ELSE IF eother
             THEN /\ th' = [th EXCEPT ![i].pc = "done", ![i].ret = "err_ioctl",
                                      ![i].trace = th[i].trace \o <<"ioctl">>]
                  /\ fileCID' = [fileCID EXCEPT ![i] = 0]
             ELSE IF CidInUse(th[i].contextID, i)
               THEN /\ th' = [th EXCEPT ![i].contextID = th[i].contextID + 1,
                                        ![i].trace = th[i].trace \o <<"ioctl">>]
                    /\ UNCHANGED fileCID
               ELSE /\ th' = [th EXCEPT ![i].pc = "fc_close",
                                        ![i].trace = th[i].trace \o <<"ioctl">>]
                    /\ fileCID' = [fileCID EXCEPT ![i] = th[i].contextID]

\* startVM with the mount check moved after NewMachine.
startVM_LateMountCheck(i, newOk) ==
    /\ UNCHANGED <<dial, snapVars, starts, proxies>>
    /\ Running(i, "fc_close")
    /\ fileCID' = [fileCID EXCEPT ![i] = 0]
    /\ UNCHANGED <<agentStarted, agentClient, ctx, cancelled, serverClosed, proc,
                   published, taskStopped>>
    /\ IF newOk
         THEN /\ machine' = i
              /\ machineCID' = th[i].contextID
              /\ vm' = [vm EXCEPT ![i] = [state |-> "created", cid |-> th[i].contextID,
                                          holds |-> FALSE]]
              /\ IF th[i].fs # "ext4"
                   THEN th' = [th EXCEPT ![i].pc = "done", ![i].ret = "err_mount",
                                         ![i].cid = th[i].contextID,
                                         ![i].trace = th[i].trace \o <<"NewMachine">>]
                   ELSE th' = [th EXCEPT ![i].pc = "vm_start", ![i].cid = th[i].contextID,
                                         ![i].trace = th[i].trace \o <<"NewMachine">>]
         ELSE /\ th' = [th EXCEPT ![i].pc = "done", ![i].ret = "err_newmachine",
                                  ![i].cid = th[i].contextID,
                                  ![i].trace = th[i].trace \o <<"NewMachine">>]
              /\ machine' = 0
              /\ UNCHANGED <<machineCID, vm>>

\* The return of findNextAvailableVsockCID (deferred file.Close, line 564)
\* and startVM up to NewMachine, lines 597-656.
startVM(i, newOk) ==
    /\ UNCHANGED <<dial, snapVars, starts, proxies>>
    /\ Running(i, "fc_close")
    /\ fileCID' = [fileCID EXCEPT ![i] = 0]
    /\ UNCHANGED <<agentStarted, agentClient, ctx, cancelled, serverClosed, proc,
                   published, taskStopped>>
    /\ IF th[i].fs # "ext4"
         THEN /\ th' = [th EXCEPT ![i].pc = "done", ![i].ret = "err_mount",
                                  ![i].cid = th[i].contextID]
              /\ UNCHANGED <<machine, machineCID, vm>>
         ELSE IF newOk
           THEN /\ th' = [th EXCEPT ![i].pc = "vm_start", ![i].cid = th[i].contextID,
                                    ![i].trace = th[i].trace \o <<"NewMachine">>]
                /\ machine' = i
                /\ machineCID' = th[i].contextID
                /\ vm' = [vm EXCEPT ![i] = [state |-> "created", cid |-> th[i].contextID,
                                            holds |-> FALSE]]
           ELSE /\ th' = [th EXCEPT ![i].pc = "done", ![i].ret = "err_newmachine",
                                    ![i].cid = th[i].contextID,
                                    ![i].trace = th[i].trace \o <<"NewMachine">>]
                /\ machine' = 0
                /\ UNCHANGED <<machineCID, vm>>

\* s.machine.Start, lines 658-661.  On failure the hypervisor child may
\* (spawned) or may not have been started already.  A started VM binds its
\* CID in the kernel when the CID is free.
machineStart(i, ok, spawned) ==
    /\ UNCHANGED <<dial, snapVars, starts, proxies>>
    /\ Running(i, "vm_start")
    /\ UNCHANGED <<svc, cancelled, serverClosed, fileCID, published, taskStopped>>
    /\ IF machine = 0
         THEN /\ Panic(i, th[i].op, <<>>)
              /\ UNCHANGED vm
         ELSE /\ UNCHANGED proc
              /\ IF ok \/ spawned
                   THEN vm' = [vm EXCEPT ![machine].state = "running",
                                         ![machine].holds = vm[machine].holds
                                              \/ ~CidInUse(vm[machine].cid, 0)]
                   ELSE UNCHANGED vm
              /\ IF ok
                   THEN th' = [th EXCEPT ![i].pc = "vm_dial",
                                         ![i].trace = th[i].trace \o <<"Start">>]
                   ELSE th' = [th EXCEPT ![i].pc = "done", ![i].ret = "err_start",
                                         ![i].trace = th[i].trace \o <<"Start">>]

\* dialVsock and the rest of startVM, lines 663-676, then Create lines 178-179.
dialAgent(i, ok, stopOk) ==
    /\ UNCHANGED <<dial, snapVars, starts, proxies>>
    /\ Running(i, "vm_dial")
    /\ UNCHANGED <<machine, machineCID, ctx, cancelled, serverClosed, fileCID,
                   published, taskStopped>>
    /\ IF ok
         THEN /\ th' = [th EXCEPT ![i].pc = "create_agent",
                                  ![i].trace = th[i].trace \o <<"dial", "agentStarted">>]
              /\ agentClient' = i
              /\ agentStarted' = TRUE
              /\ UNCHANGED <<vm, proc>>
         ELSE /\ UNCHANGED <<agentClient, agentStarted>>
              /\ IF machine = 0
                   THEN /\ Panic(i, th[i].op, <<"dial">>)
                        /\ UNCHANGED vm
                   ELSE /\ th' = [th EXCEPT ![i].pc = "done", ![i].ret = "err_dial",
                                            ![i].trace = th[i].trace \o <<"dial", "stopVM">>]
                        /\ vm' = stopVM(stopOk)
                        /\ UNCHANGED proc

\* packBundle and the agent Create RPC, lines 182-201.
createTask(i, packOk, agentOk) ==
    /\ UNCHANGED <<dial, snapVars, starts, proxies>>
    /\ Running(i, "create_agent")
    /\ UNCHANGED <<agentStarted, agentClient, machine, machineCID, cancelled,
                   serverClosed, proc, vm, fileCID, published, taskStopped>>
    /\ IF ~packOk
         THEN /\ th' = [th EXCEPT ![i].pc = "done", ![i].ret = "err_pack"]
              /\ UNCHANGED ctx
         ELSE IF ~agentOk
           THEN /\ th' = [th EXCEPT ![i].pc = "done", ![i].ret = "err_agent",
                                    ![i].agentErr = TRUE,
                                    ![i].trace = th[i].trace \o <<"agentCreate">>]
                /\ UNCHANGED ctx
           ELSE /\ th' = [th EXCEPT ![i].pc = "done", ![i].ret = "resp",
                                    ![i].trace = th[i].trace \o <<"agentCreate">>]
                /\ ctx' = i

----------------------------------------------------------------------------
\* Start, lines 203-213: the agent Start RPC, then the state monitor is
\* spawned with the context the service holds at that moment.
Start(i, agentOk) ==
    /\ UNCHANGED <<dial, snapVars, starts, proxies>>
    /\ CanCall(i)
    /\ UNCHANGED <<svc, cancelled, serverClosed, vm, fileCID, published, taskStopped>>
    /\ IF agentClient = 0
         THEN Panic(i, "Start", <<>>)
         ELSE /\ UNCHANGED proc
              /\ IF agentOk
                   THEN th' = [th EXCEPT ![i].op = "Start", ![i].pc = "done", ![i].ret = "resp",
                                         ![i].trace = <<"agentStart">>,
                                         ![Mon(i)].op = "monitorState", ![Mon(i)].pc = "poll",
                                         ![Mon(i)].mctx = ctx]
                   ELSE th' = [th EXCEPT ![i].op = "Start", ![i].pc = "done",
                                         ![i].ret = "err_agent", ![i].agentErr = TRUE,
                                         ![i].trace = <<"agentStart">>]

\* The guest task exits; from then on the agent reports status Stopped.
TaskExits ==
    /\ UNCHANGED <<dial, snapVars, starts, proxies>>
    /\ proc = "running"
    /\ ~taskStopped
    /\ \E i \in Calls : th[i].op = "Start" /\ th[i].ret = "resp"
    /\ taskStopped' = TRUE
    /\ UNCHANGED <<svc, cancelled, serverClosed, proc, vm, fileCID, th, published>>

\* monitorState, lines 215-221: the select takes the ctx.Done branch.
monitorDone(t) ==
    /\ UNCHANGED <<dial, snapVars, starts, proxies>>
    /\ Running(t, "poll")
    /\ UNCHANGED <<svc, cancelled, serverClosed, vm, fileCID, published, taskStopped>>
    /\ IF th[t].mctx = 0
         THEN Panic(t, th[t].op, <<>>)
         ELSE /\ th[t].mctx \in cancelled
              /\ th' = [th EXCEPT ![t].pc = "done", ![t].ret = "cancelled"]
              /\ UNCHANGED proc

\* monitorState, lines 221-241: a tick whose State RPC reports Stopped; the
\* TaskExit event is published and Shutdown is called.  (A tick whose RPC
\* fails or reports another status changes nothing.)
monitorState(t) ==
    /\ UNCHANGED <<dial, snapVars, starts, proxies>>
    /\ Running(t, "poll")
    /\ th[t].mctx # 0
    /\ taskStopped
    /\ published' = published + 1
    /\ th' = [th EXCEPT ![t].pc = "shutdown_agent",
                        ![t].trace = th[t].trace \o <<"publish">>]
    /\ UNCHANGED <<svc, cancelled, serverClosed, proc, vm, fileCID, taskStopped>>

----------------------------------------------------------------------------
\* Kill with s.cancel() called before the agent RPC.
Kill_CancelFirst(i, agentOk) ==
    /\ UNCHANGED <<dial, snapVars, starts, proxies>>
    /\ CanCall(i)
    /\ UNCHANGED <<svc, serverClosed, proc, vm, fileCID, published, taskStopped>>
    /\ IF agentClient = 0 \/ ctx = 0
         THEN /\ th' = [th EXCEPT ![i].op = "Kill", ![i].pc = "kill_stop", ![i].ret = "panic"]
              /\ UNCHANGED cancelled
         ELSE /\ th' = [th EXCEPT ![i].op = "Kill", ![i].pc = "kill_stop",
                                  ![i].ret = IF agentOk THEN "resp" ELSE "err_agent",
                                  ![i].agentErr = ~agentOk, ![i].mctx = ctx,
                                  ![i].trace = <<"cancel", "agentKill">>]
              /\ cancelled' = cancelled \cup {ctx}

\* Kill, lines 356-371: the agent Kill RPC and, when it succeeds, s.cancel().
\* The deferred stopVM runs afterwards on every path, a panic included.
Kill(i, agentOk) ==
    /\ UNCHANGED <<dial, snapVars, starts, proxies>>
    /\ CanCall(i)
    /\ UNCHANGED <<svc, serverClosed, proc, vm, fileCID, published, taskStopped>>
    /\ IF agentClient = 0
         THEN /\ th' = [th EXCEPT ![i].op = "Kill", ![i].pc = "kill_stop", ![i].ret = "panic"]
              /\ UNCHANGED cancelled
         ELSE IF ~agentOk
           THEN /\ th' = [th EXCEPT ![i].op = "Kill", ![i].pc = "kill_stop",
                                    ![i].ret = "err_agent", ![i].agentErr = TRUE,
                                    ![i].mctx = ctx, ![i].trace = <<"agentKill">>]
                /\ UNCHANGED cancelled
           ELSE IF ctx = 0
             THEN /\ th' = [th EXCEPT ![i].op = "Kill", ![i].pc = "kill_stop",
                                      ![i].ret = "panic", ![i].trace = <<"agentKill">>]
                  /\ UNCHANGED cancelled
             ELSE /\ th' = [th EXCEPT ![i].op = "Kill", ![i].pc = "kill_stop",
                                      ![i].ret = "resp", ![i].mctx = ctx,
                                      ![i].trace = <<"agentKill", "cancel">>]
                  /\ cancelled' = cancelled \cup {ctx}

\* The deferred function of Kill overriding the result with the stopVM error.
KillDeferred_ReturnsStopErr(i, stopOk) ==
    /\ UNCHANGED <<dial, snapVars, starts, proxies>>
    /\ Running(i, "kill_stop")
    /\ UNCHANGED <<svc, cancelled, serverClosed, fileCID, published, taskStopped>>
    /\ IF machine = 0
         THEN /\ Panic(i, th[i].op, <<>>)
              /\ UNCHANGED vm
         ELSE /\ vm' = stopVM(stopOk)
              /\ IF th[i].ret = "panic"
                   THEN Panic(i, th[i].op, <<"stopVM">>)
                   ELSE /\ th' = [th EXCEPT ![i].pc = "done", ![i].stopErr = ~stopOk,
                                            ![i].ret = IF stopOk THEN th[i].ret ELSE "err_stop",
                                            ![i].trace = th[i].trace \o <<"stopVM">>]
                        /\ UNCHANGED proc

\* The deferred function of Kill, lines 360-365: stopVM, its error only logged.
KillDeferred(i, stopOk) ==
    /\ UNCHANGED <<dial, snapVars, starts, proxies>>
    /\ Running(i, "kill_stop")
    /\ UNCHANGED <<svc, cancelled, serverClosed, fileCID, published, taskStopped>>
    /\ IF machine = 0
         THEN /\ Panic(i, th[i].op, <<>>)
              /\ UNCHANGED vm
         ELSE /\ vm' = stopVM(stopOk)
              /\ IF th[i].ret = "panic"
                   THEN Panic(i, th[i].op, <<"stopVM">>)
                   ELSE /\ th' = [th EXCEPT ![i].pc = "done", ![i].stopErr = ~stopOk,
                                            ![i].trace = th[i].trace \o <<"stopVM">>]
                        /\ UNCHANGED proc

----------------------------------------------------------------------------
\* Shutdown returning the agent's error instead of logging it.
Shutdown_ReturnsAgentErr(t, agentOk) ==
    /\ UNCHANGED <<dial, snapVars, starts, proxies>>
    /\ \/ t \in Calls /\ CanCall(t)
       \/ t \in Monitors /\ Running(t, "shutdown_agent")
    /\ UNCHANGED <<svc, cancelled, vm, fileCID, published, taskStopped>>
    /\ IF agentClient = 0
         THEN /\ Panic(t, IF t \in Calls THEN "Shutdown" ELSE th[t].op, <<>>)
              /\ UNCHANGED serverClosed
         ELSE /\ UNCHANGED proc
              /\ IF agentOk
                   THEN /\ th' = [th EXCEPT ![t].op = IF t \in Calls THEN "Shutdown" ELSE th[t].op,
                                            ![t].pc = "shutdown_stop",
                                            ![t].trace = th[t].trace \o <<"agentShutdown">>]
                        /\ UNCHANGED serverClosed
                   ELSE /\ th' = [th EXCEPT ![t].op = IF t \in Calls THEN "Shutdown" ELSE th[t].op,
                                            ![t].pc = "done", ![t].ret = "err_agent",
                                            ![t].agentErr = TRUE,
                                            ![t].trace = th[t].trace \o <<"agentShutdown">>]
                        /\ serverClosed' = (serverClosed \/ t \in Monitors)

\* Shutdown, lines 418-422: the agent Shutdown RPC, its error only logged.
\* Entered by a call of the host daemon or by a state monitor (line 241).
Shutdown(t, agentOk) ==
    /\ UNCHANGED <<dial, snapVars, starts, proxies>>
    /\ \/ t \in Calls /\ CanCall(t)
       \/ t \in Monitors /\ Running(t, "shutdown_agent")
    /\ UNCHANGED <<svc, cancelled, serverClosed, vm, fileCID, published, taskStopped>>
    /\ IF agentClient = 0
         THEN Panic(t, IF t \in Calls THEN "Shutdown" ELSE th[t].op, <<>>)
         ELSE /\ th' = [th EXCEPT ![t].op = IF t \in Calls THEN "Shutdown" ELSE th[t].op,
                                  ![t].pc = "shutdown_stop", ![t].agentErr = ~agentOk,
                                  ![t].trace = th[t].trace \o <<"agentShutdown">>]
              /\ UNCHANGED proc

\* Shutdown, lines 423-433: stopVM; on its error Shutdown returns at once,
\* otherwise the context is cancelled and the deferred os.Exit(0) runs.
\* A monitor whose Shutdown returned closes the server (line 242).
ShutdownStop(t, stopOk) ==
    /\ UNCHANGED <<dial, snapVars, starts, proxies>>
    /\ Running(t, "shutdown_stop")
    /\ UNCHANGED <<svc, fileCID, published, taskStopped>>
    /\ IF machine = 0
         THEN /\ Panic(t, th[t].op, <<>>)
              /\ UNCHANGED <<vm, cancelled, serverClosed>>
         ELSE /\ vm' = stopVM(stopOk)
              /\ IF ~stopOk
                   THEN /\ th' = [th EXCEPT ![t].pc = "done", ![t].ret = "err_stop",
                                            ![t].stopErr = TRUE,
                                            ![t].trace = th[t].trace \o <<"stopVM">>]
                        /\ serverClosed' = (serverClosed \/ t \in Monitors)
                        /\ UNCHANGED <<cancelled, proc>>
                   ELSE IF ctx = 0
                     THEN /\ Panic(t, th[t].op, <<"stopVM">>)
                          /\ UNCHANGED <<cancelled, serverClosed>>
                     ELSE /\ th' = [th EXCEPT ![t].pc = "done", ![t].ret = "resp",
                                              ![t].trace = th[t].trace \o <<"stopVM", "cancel", "exit">>]
                          /\ cancelled' = cancelled \cup {ctx}
                          /\ proc' = "exited"
                          /\ UNCHANGED serverClosed

----------------------------------------------------------------------------
FsTypes == {"ext4", "xfs"}

Next ==
    \/ \E i \in Calls, fs \in FsTypes, openOk \in BOOLEAN : Create(i, fs, openOk)
    \/ \E i \in Calls, ctxDone \in BOOLEAN, eother \in BOOLEAN :
          findNextAvailableVsockCID(i, ctxDone, eother)
    \/ \E i \in Calls, newOk \in BOOLEAN : startVM(i, newOk)
    \/ \E i \in Calls, ok \in BOOLEAN, spawned \in BOOLEAN : machineStart(i, ok, spawned)
    \/ \E i \in Calls, ok \in BOOLEAN, stopOk \in BOOLEAN : dialAgent(i, ok, stopOk)
    \/ \E i \in Calls, packOk \in BOOLEAN, agentOk \in BOOLEAN : createTask(i, packOk, agentOk)
    \/ \E i \in Calls, agentOk \in BOOLEAN : Start(i, agentOk)
    \/ TaskExits
    \/ \E t \in Monitors : monitorDone(t)
    \/ \E t \in Monitors : monitorState(t)
    \/ \E i \in Calls, agentOk \in BOOLEAN : Kill(i, agentOk)
    \/ \E i \in Calls, stopOk \in BOOLEAN : KillDeferred(i, stopOk)
    \/ \E t \in Threads, agentOk \in BOOLEAN : Shutdown(t, agentOk)
    \/ \E t \in Threads, stopOk \in BOOLEAN : ShutdownStop(t, stopOk)

Spec == Init /\ [][Next]_vars

----------------------------------------------------------------------------
\* Properties of Kill and Shutdown.

KillReturned(i) == th[i].op = "Kill" /\ th[i].pc = "done"

\* The steps of Shutdown run by thread t (a monitor's trace starts with publish).
ShutdownSteps(t) == SelectSeq(th[t].trace, LAMBDA e : e # "publish")

RanShutdown(t) == th[t].op \in {"Shutdown", "monitorState"} /\ Has(th[t].trace, "agentShutdown")

\* C1: a Kill that returns has issued the agent Kill RPC exactly once and
\* then stopVM exactly once, whether the RPC succeeded or failed, and it
\* returns the agent's response or the agent's error whatever stopVM returned.
C1_KillStopsVMOnce ==
    \A i \in Calls : KillReturned(i) =>
        /\ Count(th[i].trace, "agentKill") = 1
        /\ Count(th[i].trace, "stopVM") = 1
        /\ Before(th[i].trace, "agentKill", "stopVM")
        /\ th[i].ret = IF th[i].agentErr THEN "err_agent" ELSE "resp"

C1_Witness ==
    \E i \in Calls : KillReturned(i) /\ th[i].agentErr /\ th[i].stopErr

C3_KillCancelsContext ==
    \A i \in Calls : (KillReturned(i) /\ th[i].mctx # 0) => th[i].mctx \in cancelled

\* C4: the steps of a Shutdown occur in the order agent Shutdown RPC, VM
\* stop, context cancel, process exit; the agent's error is never what
\* Shutdown returns, and after it the later steps run as after a success.
C4_ShutdownOrder ==
    \A t \in Threads : th[t].op \in {"Shutdown", "monitorState"} =>
        /\ ShutdownSteps(t) \in {<<>>, <<"agentShutdown">>, <<"agentShutdown", "stopVM">>,
                                 <<"agentShutdown", "stopVM", "cancel", "exit">>}
        /\ Has(th[t].trace, "exit") => proc = "exited"
        /\ (RanShutdown(t) /\ th[t].pc = "done") =>
              /\ th[t].ret \in {"resp", "err_stop"}
              /\ th[t].ret = "err_stop" <=> th[t].stopErr
              /\ ~th[t].stopErr => ShutdownSteps(t) =
                                     <<"agentShutdown", "stopVM", "cancel", "exit">>
        /\ (RanShutdown(t) /\ th[t].pc = "shutdown_stop") =>
              ShutdownSteps(t) = <<"agentShutdown">>

C4_Witness ==
    \E t \in Threads : /\ RanShutdown(t) /\ th[t].agentErr /\ proc = "exited"
                       /\ ShutdownSteps(t) = <<"agentShutdown", "stopVM", "cancel", "exit">>

\* C5: when stopVM fails inside Shutdown the remaining cleanups still run:
\* the context is cancelled and the shim process terminates.
C5_ShutdownCleansUpAfterStopError ==
    \A t \in Threads : (RanShutdown(t) /\ th[t].pc = "done" /\ th[t].stopErr) =>
        /\ Has(th[t].trace, "cancel")
        /\ Has(th[t].trace, "exit")
        /\ proc = "exited"

CreateSucceeded == \E i \in Calls : th[i].op = "Create" /\ th[i].ret = "resp"

StartSucceeded == \E i \in Calls : th[i].op = "Start" /\ th[i].ret = "resp"

\* C6: when the shim terminates through Shutdown after a successful Create
\* and Start, exactly one TaskExit event has been published.
C6_ExactlyOneTaskExit ==
    (proc = "exited" /\ CreateSucceeded /\ StartSucceeded) => published = 1

----------------------------------------------------------------------------
\* Properties of VM boot.

\* The calls whose startVM returned a client (Create then set agentStarted).
Booted == {i \in Calls : Has(th[i].trace, "agentStarted")}

\* C7: a shim boots at most one VM: startVM succeeds at most once, also
\* when Create calls run concurrently.
C7_AtMostOneVM == Cardinality(Booted) <= 1

\* C8: a Create that enters startVM with a rootfs mount that is not ext4
\* fails before the machine is created or started and before any agent
\* RPC; it does not mark the shim started, and the shim is only ever marked
\* started by a Create whose mounts are all ext4.
C8_BadMountFailsBeforeBoot ==
    /\ \A i \in Calls : (th[i].op = "Create" /\ th[i].fs # "ext4" /\ Has(th[i].trace, "startVM")) =>
          /\ th[i].pc = "done" =>
                th[i].ret \in {"err_open", "err_ctx", "err_ioctl", "err_nocid", "err_mount"}
          /\ th[i].pc \in {"fc_scan", "fc_close", "done"}
          /\ ~Has(th[i].trace, "NewMachine")
          /\ ~Has(th[i].trace, "Start")
          /\ ~Has(th[i].trace, "dial")
          /\ ~Has(th[i].trace, "agentCreate")
          /\ vm[i].state = "none"
          /\ machine # i /\ agentClient # i /\ ctx # i
    /\ agentStarted => \E j \in Calls : th[j].fs = "ext4" /\ agentClient = j

\* a bad-mount Create failed on the mount check and a later Create booted the VM
C8_Witness ==
    \E i \in Calls : \E j \in Calls :
        /\ i < j
        /\ th[i].op = "Create" /\ th[i].ret = "err_mount"
        /\ th[j].op = "Create" /\ Has(th[j].trace, "agentStarted")
        /\ Booted = {j}
        /\ agentStarted

\* C9: a startVM that fails after the machine was created (Start fails, or
\* the dial fails) has invoked stopVM before it returns the error.
C9_FailedBootTearsDown ==
    \A i \in Calls : (th[i].op = "Create" /\ th[i].pc = "done"
                      /\ th[i].ret \in {"err_start", "err_dial"}) =>
        Has(th[i].trace, "stopVM")

\* C10: the allocator never returns CID 0, 1 or 2, and no two VMs that are
\* alive at the same time were given the same CID.
C10_DistinctCIDs ==
    /\ \A i \in Calls : th[i].cid # 0 => th[i].cid >= 3
    /\ \A i \in Calls : \A j \in Calls :
          (i # j /\ vm[i].state = "running" /\ vm[j].state = "running") =>
              vm[i].cid # vm[j].cid



----------------------------------------------------------------------------
\* dialVsock, service.go lines 517-543.

\* The errors vsock.Dial can fail with.
DialErrs == {"ECONNREFUSED", "ETIMEDOUT", "ENODEV"}

\* dialVsock that sleeps the initial delay after every failure.
dialVsock_FixedDelay(ok, e) ==
    /\ dial.pc = "loop"
    /\ dial.i <= retryCount
    /\ UNCHANGED <<shimVars, snapVars, starts, proxies>>
    /\ IF ok
         THEN dial' = [dial EXCEPT !.pc = "done", !.ret = "conn", !.dials = @ + 1,
                                   !.late = IF dial.ctxDone THEN @ + 1 ELSE @]
         ELSE dial' = [dial EXCEPT !.dials = @ + 1,
                                   !.late = IF dial.ctxDone THEN @ + 1 ELSE @,
                                   !.slept = Append(@, initialDelay),
                                   !.lastErr = e,
                                   !.errs = Append(@, e),
                                   !.i = @ + 1]

\* One iteration of the loop, lines 530-540: Dial; on success return the
\* connection; on error e sleep currentDelay, keep e and grow the delay.
dialVsock(ok, e) ==
    /\ dial.pc = "loop"
    /\ dial.i <= retryCount
    /\ UNCHANGED <<shimVars, snapVars, starts, proxies>>
    /\ IF ok
         THEN dial' = [dial EXCEPT !.pc = "done", !.ret = "conn", !.dials = @ + 1,
                                   !.late = IF dial.ctxDone THEN @ + 1 ELSE @]
         ELSE dial' = [dial EXCEPT !.dials = @ + 1,
                                   !.late = IF dial.ctxDone THEN @ + 1 ELSE @,
                                   !.slept = Append(@, dial.currentDelay),
                                   !.lastErr = e,
                                   !.errs = Append(@, e),
                                   !.currentDelay = @ * delayMultiplier,
                                   !.i = @ + 1]

\* The loop is over, line 542: return nil and lastErr.
dialVsockReturn ==
    /\ dial.pc = "loop"
    /\ ~(dial.i <= retryCount)
    /\ dial' = [dial EXCEPT !.pc = "done", !.ret = dial.lastErr]
    /\ UNCHANGED <<shimVars, snapVars, starts, proxies>>

\* The caller of Create cancels the request context while dialVsock runs.
ctxCancel ==
    /\ dial.pc = "loop"
    /\ ~dial.ctxDone
    /\ dial' = [dial EXCEPT !.ctxDone = TRUE]
    /\ UNCHANGED <<shimVars, snapVars, starts, proxies>>

NextDial ==
    \/ \E ok \in BOOLEAN, e \in DialErrs : dialVsock(ok, e)
    \/ dialVsockReturn
    \/ ctxCancel

SpecDial == Init /\ [][NextDial]_vars

\* C11: dialVsock dials at most 5 times; the wait after the k-th failed dial
\* is 100 * 2^(k-1) ms; it returns the connection at the first dial that
\* succeeds, without another dial or wait; after 5 failed dials it returns
\* the error of the fifth.
C11_DialBackoff ==
    /\ dial.dials <= 5
    /\ dial.slept = [k \in 1..Len(dial.errs) |-> 100 * 2^(k - 1)]
    /\ dial.ret = "none" => dial.pc = "loop" /\ dial.dials = Len(dial.errs)
    /\ dial.ret = "conn" => dial.pc = "done" /\ dial.dials = Len(dial.errs) + 1
    /\ dial.ret \notin {"none", "conn"} =>
          /\ dial.pc = "done"
          /\ dial.dials = 5
          /\ Len(dial.errs) = 5
          /\ dial.ret = dial.errs[5]
          /\ dial.slept = <<100, 200, 400, 800, 1600>>

\* five dials failed, the last two with different errors
C11_Witness ==
    /\ dial.pc = "done"
    /\ dial.ret \in DialErrs
    /\ dial.errs[4] # dial.ret
    /\ dial.dials = 5

----------------------------------------------------------------------------
\* The snapshotter: unnamed/part_000 (type Snapshotter) and
\* snapshotter/devmapper/devmapper.go (type devmapper).  A call that needs
\* a writable transaction waits for it, and runs its body while it holds
\* it, so the body of a call is one step.

\* getDevicePath: the device node of the snapshot's device.
getDevicePath(snap) == <<"/dev/mapper", getDeviceName(snap.id)>>

\* buildMounts: one ext4 mount of the device, read-only unless Active.
buildMounts(snap) ==
    <<[type |-> "ext4", source |-> getDevicePath(snap),
       options |-> IF snap.kind # "Active" THEN <<"ro">> ELSE <<>>]>>

\* ---- the MetaStore, as the snapshotter uses it ----

Exists(w, k) == k \in Keys /\ w.recs[k].id # 0

\* storage.CreateSnapshot: the key must be new and the parent, if given, a
\* committed snapshot; the id is the next value of the store's sequence.
storageCreateSnapshot(w, kind, key, parent) ==
    IF Exists(w, key) THEN [w |-> w, err |-> "AlreadyExists", snap |-> noRec]
    ELSE IF parent # "" /\ ~Exists(w, parent) THEN [w |-> w, err |-> "NotFound", snap |-> noRec]
    ELSE IF parent # "" /\ w.recs[parent].kind # "Committed"
      THEN [w |-> w, err |-> "InvalidArgument", snap |-> noRec]
    ELSE LET rec == [id |-> w.seq + 1, kind |-> kind,
                     parents |-> IF parent = "" THEN <<>>
                                 ELSE <<w.recs[parent].id>> \o w.recs[parent].parents,
                     label |-> ""]
         IN [w |-> [w EXCEPT !.recs[key] = rec, !.seq = w.seq + 1], err |-> "nil", snap |-> rec]

\* storage.CommitActive: the active snapshot key becomes the committed name.
storageCommitActive(w, key, name) ==
    IF ~Exists(w, key) THEN [w |-> w, err |-> "NotFound"]
    ELSE IF w.recs[key].kind # "Active" THEN [w |-> w, err |-> "FailedPrecondition"]
    ELSE IF Exists(w, name) THEN [w |-> w, err |-> "AlreadyExists"]
    ELSE [w |-> [w EXCEPT !.recs[name] = [w.recs[key] EXCEPT !.kind = "Committed"],
                          !.recs[key] = noRec],
          err |-> "nil"]

\* storage.Remove: deletes the record of a snapshot without children and
\* returns its id.
storageRemove(w, key) ==
    IF ~Exists(w, key) THEN [w |-> w, err |-> "NotFound", id |-> 0]
    ELSE IF \E k \in Keys : Exists(w, k) /\ w.recs[k].parents # <<>>
                              /\ w.recs[k].parents[1] = w.recs[key].id
      THEN [w |-> w, err |-> "FailedPrecondition", id |-> 0]
    ELSE [w |-> [w EXCEPT !.recs[key] = noRec], err |-> "nil", id |-> w.recs[key].id]

\* storage.GetSnapshot and storage.GetInfo.
storageGetSnapshot(w, key) ==
    IF Exists(w, key) THEN [err |-> "nil", snap |-> w.recs[key]]
    ELSE [err |-> "NotFound", snap |-> noRec]

\* storage.UpdateInfo: sets the labels of an existing snapshot and returns
\* its updated info.
storageUpdateInfo(w, key, label) ==
    IF ~Exists(w, key) THEN [w |-> w, err |-> "NotFound", snap |-> noRec]
    ELSE [w |-> [w EXCEPT !.recs[key].label = label], err |-> "nil",
          snap |-> [w.recs[key] EXCEPT !.label = label]]

\* storage.WalkInfo: hands every record to the callback and stops at the
\* first error the callback returns.
storageWalkInfo(w, fnOk) ==
    LET all == {k \in Keys : Exists(w, k)}
    IN IF all = {} \/ fnOk THEN [err |-> "nil", walked |-> all]
       ELSE [err |-> "callback failed", walked |-> {CHOOSE k \in all : TRUE}]

\* ---- the thin-pool ----

HasDevice(p, name) == \E d \in p.devices : d.name = name

\* PoolDevice.CreateThinDevice: adds the device or, on any failure, nothing.
poolCreateThinDevice(p, name, ok) ==
    IF HasDevice(p, name) THEN [pool |-> p, err |-> "device exists"]
    ELSE IF ~ok THEN [pool |-> p, err |-> "device error"]
    ELSE [pool |-> [p EXCEPT !.devices = @ \cup {[name |-> name, parent |-> <<>>, fs |-> FALSE]}],
          err |-> "nil"]

\* PoolDevice.CreateSnapshotDevice: a device that shares the parent's blocks.
poolCreateSnapshotDevice(p, parentName, name, ok) ==
    IF ~HasDevice(p, parentName) THEN [pool |-> p, err |-> "device not found"]
    ELSE IF HasDevice(p, name) THEN [pool |-> p, err |-> "device exists"]
    ELSE IF ~ok THEN [pool |-> p, err |-> "device error"]
    ELSE LET par == CHOOSE d \in p.devices : d.name = parentName
         IN [pool |-> [p EXCEPT !.devices = @ \cup {[name |-> name, parent |-> parentName,
                                                     fs |-> par.fs]}],
             err |-> "nil"]

\* PoolDevice.RemoveDevice: removes the device; a failed removal leaves it.
poolRemoveDevice(p, name, ok) ==
    IF ~HasDevice(p, name) THEN [pool |-> p, err |-> "device not found"]
    ELSE IF ~ok THEN [pool |-> p, err |-> "device error"]
    ELSE [pool |-> [p EXCEPT !.devices = {d \in @ : d.name # name}], err |-> "nil"]

\* mkfs, part_000 lines 266-283: runs mkfs.ext4 on the device.
mkfs(p, name, ok) ==
    IF ~ok THEN [pool |-> p, err |-> "mkfs failed"]
    ELSE [pool |-> [p EXCEPT !.devices = {[d EXCEPT !.fs = (d.name = name) \/ d.fs] : d \in @}],
          err |-> "nil"]

\* ---- transactions ----

\* withTransaction that commits whenever fn succeeded, writable or not.
withTransaction_IgnoreWritable(writable, fnErr, txOk) ==
    IF fnErr # <<>>
      THEN [commit |-> FALSE,
            ret |-> IF txOk THEN fnErr ELSE fnErr \o <<"rollback failed">>,
            step |-> IF txOk THEN "rollback" ELSE "rollback failed"]
      ELSE [commit |-> txOk,
            ret |-> IF txOk THEN <<>> ELSE <<"commit failed">>,
            step |-> IF txOk THEN "commit" ELSE "commit failed"]

\* withTransaction, part_000 lines 315-353, after fn returned fnErr: roll
\* back when fn failed or the transaction is read-only, commit otherwise;
\* the error of the rollback or commit is added to the returned errors.
withTransaction(writable, fnErr, txOk) ==
    IF fnErr # <<>> \/ ~writable
      THEN [commit |-> FALSE,
            ret |-> IF txOk THEN fnErr ELSE fnErr \o <<"rollback failed">>,
            step |-> IF txOk THEN "rollback" ELSE "rollback failed"]
      ELSE [commit |-> txOk,
            ret |-> IF txOk THEN <<>> ELSE <<"commit failed">>,
            step |-> IF txOk THEN "commit" ELSE "commit failed"]

\* complete, devmapper.go lines 315-327: roll back on an error, commit
\* otherwise; the error of the rollback or commit is logged, err returned.
complete(err, txOk) ==
    IF err # <<>>
      THEN [commit |-> FALSE, ret |-> err,
            step |-> IF txOk THEN "rollback" ELSE "rollback failed"]
      ELSE [commit |-> txOk, ret |-> err,
            step |-> IF txOk THEN "commit" ELSE "commit failed"]

\* How a writable call ends its transaction in the file that runs.
finish(fnErr, txOk) ==
    IF impl = "Snapshotter" THEN withTransaction(TRUE, fnErr, txOk) ELSE complete(fnErr, txOk)

\* How a read-only call ends its transaction: withTransaction in part_000,
\* a deferred trans.Rollback() whose error is dropped in devmapper.go.
finishRead(fnErr, txOk) ==
    IF impl = "Snapshotter" THEN withTransaction(FALSE, fnErr, txOk)
    ELSE [commit |-> FALSE, ret |-> fnErr,
          step |-> IF txOk THEN "rollback" ELSE "rollback failed"]

\* ---- the calls ----

OpKinds == {"Prepare", "View", "Commit", "Remove", "Update", "Stat", "Mounts", "Walk", "Close"}

Writable == {"Prepare", "View", "Commit", "Remove", "Update"}

\* The labels an Update can set.
Labels == {"x"}

\* The arguments a call can come with: key, and parent (Prepare, View),
\* name (Commit) or label (Update).
OpArgs(op) ==
    IF op \in {"Prepare", "View"} THEN CallKeys \X (CallKeys \cup {""})
    ELSE IF op = "Commit" THEN CallKeys \X CallKeys
    ELSE IF op = "Update" THEN CallKeys \X Labels
    ELSE IF op \in {"Close", "Walk"} THEN {<<"", "">>}
    ELSE CallKeys \X {""}

\* A client calls the snapshotter; calls are numbered as they arrive.
Invoke(o, op, key, arg) ==
    /\ ops[o].op = "none"
    /\ (o > 1 => ops[o - 1].op # "none")
    /\ ops' = [ops EXCEPT ![o].op = op, ![o].key = key, ![o].arg = arg, ![o].pc = "called",
                          ![o].fresh = key \in Keys /\ store.recs[key].id = 0,
                          ![o].conc = {q \in SnapOps : ops[q].pc \in {"called", "intx"}}]
    /\ UNCHANGED <<shimVars, starts, proxies, dial, impl, store, writer, pool, closeOnce>>

\* TransactionContext that does not wait for the open writable transaction.
TransactionContext_NoWriterLock(o, ok) ==
    /\ ops[o].pc = "called"
    /\ ops[o].op \in Writable
    /\ IF ok /\ store.open
         THEN /\ writer' = o
              /\ ops' = [ops EXCEPT ![o].pc = "intx", ![o].trace = <<"begin">>,
                                    ![o].tx = [recs |-> store.recs, seq |-> store.seq]]
         ELSE /\ ops' = [ops EXCEPT ![o].pc = "done", ![o].ret = <<"begin failed">>,
                                    ![o].trace = <<"begin failed">>]
              /\ UNCHANGED writer
    /\ UNCHANGED <<shimVars, starts, proxies, dial, impl, store, pool, closeOnce>>

\* store.TransactionContext(ctx, true): fails, or returns once no other
\* writable transaction is open.
TransactionContext(o, ok) ==
    /\ ops[o].pc = "called"
    /\ ops[o].op \in Writable
    /\ IF ok /\ store.open
         THEN /\ writer = 0
              /\ writer' = o
              /\ ops' = [ops EXCEPT ![o].pc = "intx", ![o].trace = <<"begin">>,
                                    ![o].tx = [recs |-> store.recs, seq |-> store.seq]]
         ELSE /\ ops' = [ops EXCEPT ![o].pc = "done", ![o].ret = <<"begin failed">>,
                                    ![o].trace = <<"begin failed">>]
              /\ UNCHANGED writer
    /\ UNCHANGED <<shimVars, starts, proxies, dial, impl, store, pool, closeOnce>>

\* createSnapshot that snapshots the device of the last entry of the parent chain.
createSnapshot_FromOldestParent(o, stOk, devOk, mkfsOk, txOk) ==
    /\ ops[o].pc = "intx"
    /\ ops[o].op \in {"Prepare", "View"}
    /\ LET kind == IF ops[o].op = "Prepare" THEN "Active" ELSE "View"
           cs == IF stOk THEN storageCreateSnapshot(ops[o].tx, kind, ops[o].key, ops[o].arg)
                 ELSE [w |-> ops[o].tx, err |-> "EIO", snap |-> noRec]
           thin == Len(cs.snap.parents) = 0
           name == getDeviceName(cs.snap.id)
           dev == IF thin THEN poolCreateThinDevice(pool, name, devOk)
                  ELSE poolCreateSnapshotDevice(pool, getDeviceName(cs.snap.parents[Len(cs.snap.parents)]),
                                                name, devOk)
           fmt == mkfs(dev.pool, name, mkfsOk)
           fnErr == IF cs.err # "nil" THEN <<cs.err>>
                    ELSE IF dev.err # "nil" THEN <<dev.err>>
                    ELSE IF thin /\ fmt.err # "nil" THEN <<fmt.err>>
                    ELSE <<>>
           steps == IF cs.err # "nil" THEN <<"CreateSnapshot">>
                    ELSE IF ~thin THEN <<"CreateSnapshot", "CreateSnapshotDevice">>
                    ELSE IF dev.err # "nil" THEN <<"CreateSnapshot", "CreateThinDevice">>
                    ELSE <<"CreateSnapshot", "CreateThinDevice", "mkfs">>
           fin == finish(fnErr, txOk)
       IN /\ pool' = IF cs.err # "nil" THEN pool
                     ELSE IF thin /\ dev.err = "nil" THEN fmt.pool
                     ELSE dev.pool
          /\ store' = IF fin.commit THEN [store EXCEPT !.recs = cs.w.recs, !.seq = cs.w.seq]
                       ELSE store
          /\ ops' = [ops EXCEPT ![o].pc = "done", ![o].ret = fin.ret, ![o].tx = noTx,
                                ![o].body = fnErr,
                                ![o].mounts = IF fnErr = <<>> THEN buildMounts(cs.snap)
                                              ELSE <<>>,
                                ![o].trace = @ \o steps \o <<fin.step>>]
    /\ writer' = 0
    /\ UNCHANGED <<shimVars, starts, proxies, dial, impl, closeOnce>>

\* The body of Prepare and View: createSnapshot, part_000 lines 225-264 and
\* devmapper.go lines 213-260, and the end of the transaction.  stOk, devOk,
\* mkfsOk, txOk: the store, the pool, mkfs.ext4 and the commit or rollback
\* work.  The removal of lost+found changes nothing recorded here.
createSnapshot(o, stOk, devOk, mkfsOk, txOk) ==
    /\ ops[o].pc = "intx"
    /\ ops[o].op \in {"Prepare", "View"}
    /\ LET kind == IF ops[o].op = "Prepare" THEN "Active" ELSE "View"
           cs == IF stOk THEN storageCreateSnapshot(ops[o].tx, kind, ops[o].key, ops[o].arg)
                 ELSE [w |-> ops[o].tx, err |-> "EIO", snap |-> noRec]
           thin == Len(cs.snap.parents) = 0
           name == getDeviceName(cs.snap.id)
           dev == IF thin THEN poolCreateThinDevice(pool, name, devOk)
                  ELSE poolCreateSnapshotDevice(pool, getDeviceName(cs.snap.parents[1]),
                                                name, devOk)
           fmt == mkfs(dev.pool, name, mkfsOk)
           fnErr == IF cs.err # "nil" THEN <<cs.err>>
                    ELSE IF dev.err # "nil" THEN <<dev.err>>
                    ELSE IF thin /\ fmt.err # "nil" THEN <<fmt.err>>
                    ELSE <<>>
           steps == IF cs.err # "nil" THEN <<"CreateSnapshot">>
                    ELSE IF ~thin THEN <<"CreateSnapshot", "CreateSnapshotDevice">>
                    ELSE IF dev.err # "nil" THEN <<"CreateSnapshot", "CreateThinDevice">>
                    ELSE <<"CreateSnapshot", "CreateThinDevice", "mkfs">>
           fin == finish(fnErr, txOk)
       IN /\ pool' = IF cs.err # "nil" THEN pool
                     ELSE IF thin /\ dev.err = "nil" THEN fmt.pool
                     ELSE dev.pool
          /\ store' = IF fin.commit THEN [store EXCEPT !.recs = cs.w.recs, !.seq = cs.w.seq]
                       ELSE store
          /\ ops' = [ops EXCEPT ![o].pc = "done", ![o].ret = fin.ret, ![o].tx = noTx,
                                ![o].body = fnErr,
                                ![o].mounts = IF fnErr = <<>> THEN buildMounts(cs.snap)
                                              ELSE <<>>,
                                ![o].trace = @ \o steps \o <<fin.step>>]
    /\ writer' = 0
    /\ UNCHANGED <<shimVars, starts, proxies, dial, impl, closeOnce>>

\* The body of Commit(name, key), part_000 lines 171-178 and devmapper.go
\* lines 147-161.
Commit(o, stOk, txOk) ==
    /\ ops[o].pc = "intx"
    /\ ops[o].op = "Commit"
    /\ LET ca == IF stOk THEN storageCommitActive(ops[o].tx, ops[o].key, ops[o].arg)
                 ELSE [w |-> ops[o].tx, err |-> "EIO"]
           fnErr == IF ca.err # "nil" THEN <<ca.err>> ELSE <<>>
           fin == finish(fnErr, txOk)
       IN /\ store' = IF fin.commit THEN [store EXCEPT !.recs = ca.w.recs, !.seq = ca.w.seq]
                       ELSE store
          /\ ops' = [ops EXCEPT ![o].pc = "done", ![o].ret = fin.ret, ![o].tx = noTx,
                                ![o].body = fnErr,
                                ![o].trace = @ \o <<"CommitActive", fin.step>>]
    /\ writer' = 0
    /\ UNCHANGED <<shimVars, starts, proxies, dial, impl, pool, closeOnce>>

\* Remove that only logs the error of the device removal.
Remove_IgnoreDeviceError(o, stOk, devOk, txOk) ==
    /\ ops[o].pc = "intx"
    /\ ops[o].op = "Remove"
    /\ LET rm == IF stOk THEN storageRemove(ops[o].tx, ops[o].key)
                 ELSE [w |-> ops[o].tx, err |-> "EIO", id |-> 0]
           dev == poolRemoveDevice(pool, getDeviceName(rm.id), devOk)
           fnErr == IF rm.err # "nil" THEN <<rm.err>> ELSE <<>>
           steps == IF rm.err # "nil" THEN <<"Remove">>
                    ELSE IF dev.err # "nil" THEN <<"Remove", "RemoveDevice failed">>
                    ELSE <<"Remove", "RemoveDevice">>
           fin == finish(fnErr, txOk)
       IN /\ pool' = IF rm.err # "nil" THEN pool ELSE dev.pool
          /\ store' = IF fin.commit THEN [store EXCEPT !.recs = rm.w.recs, !.seq = rm.w.seq]
                       ELSE store
          /\ ops' = [ops EXCEPT ![o].pc = "done", ![o].ret = fin.ret, ![o].tx = noTx,
                                ![o].body = fnErr,
                                ![o].trace = @ \o steps \o <<fin.step>>]
    /\ writer' = 0
    /\ UNCHANGED <<shimVars, starts, proxies, dial, impl, closeOnce>>

\* The body of Remove(key): removeDevice, part_000 lines 180-201, and
\* devmapper.go lines 163-183: delete the record, then remove the device.
Remove(o, stOk, devOk, txOk) ==
    /\ ops[o].pc = "intx"
    /\ ops[o].op = "Remove"
    /\ LET rm == IF stOk THEN storageRemove(ops[o].tx, ops[o].key)
                 ELSE [w |-> ops[o].tx, err |-> "EIO", id |-> 0]
           dev == poolRemoveDevice(pool, getDeviceName(rm.id), devOk)
           fnErr == IF rm.err # "nil" THEN <<rm.err>>
                    ELSE IF dev.err # "nil" THEN <<dev.err>>
                    ELSE <<>>
           steps == IF rm.err # "nil" THEN <<"Remove">>
                    ELSE IF dev.err # "nil" THEN <<"Remove", "RemoveDevice failed">>
                    ELSE <<"Remove", "RemoveDevice">>
           fin == finish(fnErr, txOk)
       IN /\ pool' = IF rm.err # "nil" THEN pool ELSE dev.pool
          /\ store' = IF fin.commit THEN [store EXCEPT !.recs = rm.w.recs, !.seq = rm.w.seq]
                       ELSE store
          /\ ops' = [ops EXCEPT ![o].pc = "done", ![o].ret = fin.ret, ![o].tx = noTx,
                                ![o].body = fnErr,
                                ![o].trace = @ \o steps \o <<fin.step>>]
    /\ writer' = 0
    /\ UNCHANGED <<shimVars, starts, proxies, dial, impl, closeOnce>>

\* The body of Update(info), part_000 lines 105-115 and devmapper.go lines
\* 97-111: UpdateInfo; the info returned is the updated one, or the zero
\* Info when UpdateInfo failed.
Update(o, stOk, txOk) ==
    /\ ops[o].pc = "intx"
    /\ ops[o].op = "Update"
    /\ LET up == IF stOk THEN storageUpdateInfo(ops[o].tx, ops[o].key, ops[o].arg)
                 ELSE [w |-> ops[o].tx, err |-> "EIO", snap |-> noRec]
           fnErr == IF up.err # "nil" THEN <<up.err>> ELSE <<>>
           fin == finish(fnErr, txOk)
       IN /\ store' = IF fin.commit THEN [store EXCEPT !.recs = up.w.recs, !.seq = up.w.seq]
                       ELSE store
          /\ ops' = [ops EXCEPT ![o].pc = "done", ![o].ret = fin.ret, ![o].tx = noTx,
                                ![o].body = fnErr, ![o].info = up.snap,
                                ![o].trace = @ \o <<"UpdateInfo", fin.step>>]
    /\ writer' = 0
    /\ UNCHANGED <<shimVars, starts, proxies, dial, impl, pool, closeOnce>>

\* Stat(key), part_000 lines 89-103 and devmapper.go lines 79-95: a
\* read-only transaction around GetInfo.
Stat(o, beginOk, stOk, txOk) ==
    /\ ops[o].pc = "called"
    /\ ops[o].op = "Stat"
    /\ LET began == beginOk /\ store.open
           g == IF stOk THEN storageGetSnapshot(store, ops[o].key)
                ELSE [err |-> "EIO", snap |-> noRec]
           fnErr == IF g.err # "nil" THEN <<g.err>> ELSE <<>>
           fin == finishRead(fnErr, txOk)
       IN ops' = [ops EXCEPT ![o].pc = "done",
                             ![o].body = IF began THEN fnErr ELSE <<>>,
                             ![o].ret = IF began THEN fin.ret ELSE <<"begin failed">>,
                             ![o].info = IF began THEN g.snap ELSE noRec,
                             ![o].trace = IF began THEN <<"begin", "GetInfo", fin.step>>
                                          ELSE <<"begin failed">>]
    /\ UNCHANGED <<shimVars, starts, proxies, dial, impl, store, writer, pool, closeOnce>>

\* Walk(fn), part_000 lines 203-208 and devmapper.go lines 185-195: a
\* read-only transaction around WalkInfo.
Walk(o, beginOk, fnOk, txOk) ==
    /\ ops[o].pc = "called"
    /\ ops[o].op = "Walk"
    /\ LET began == beginOk /\ store.open
           wk == storageWalkInfo(store, fnOk)
           fnErr == IF wk.err # "nil" THEN <<wk.err>> ELSE <<>>
           fin == finishRead(fnErr, txOk)
       IN ops' = [ops EXCEPT ![o].pc = "done",
                             ![o].body = IF began THEN fnErr ELSE <<>>,
                             ![o].ret = IF began THEN fin.ret ELSE <<"begin failed">>,
                             ![o].walked = IF began THEN wk.walked ELSE {},
                             ![o].trace = IF began THEN <<"begin", "WalkInfo", fin.step>>
                                          ELSE <<"begin failed">>]
    /\ UNCHANGED <<shimVars, starts, proxies, dial, impl, store, writer, pool, closeOnce>>

\* Mounts(key), part_000 lines 123-137 and devmapper.go lines 119-135: a
\* read-only transaction around GetSnapshot.  part_000 drops the error of
\* withTransaction and builds the mounts of whatever snap holds;
\* devmapper.go returns the error and no mounts.
Mounts(o, beginOk, stOk, txOk) ==
    /\ ops[o].pc = "called"
    /\ ops[o].op = "Mounts"
    /\ LET began == beginOk /\ store.open
           g == IF ~began THEN [err |-> "begin failed", snap |-> noRec]
                ELSE IF stOk THEN storageGetSnapshot(store, ops[o].key)
                ELSE [err |-> "EIO", snap |-> noRec]
           fnErr == IF g.err # "nil" THEN <<g.err>> ELSE <<>>
           steps == IF began THEN <<"begin", "GetSnapshot", finishRead(fnErr, txOk).step>>
                    ELSE <<"begin failed">>
       IN ops' = [ops EXCEPT ![o].pc = "done",
                             ![o].body = IF began THEN fnErr ELSE <<>>,
                             ![o].ret = IF impl = "Snapshotter" THEN <<>> ELSE fnErr,
                             ![o].mounts = IF impl = "Snapshotter" \/ fnErr = <<>>
                                             THEN buildMounts(g.snap)
                                             ELSE <<>>,
                             ![o].trace = steps]
    /\ UNCHANGED <<shimVars, starts, proxies, dial, impl, store, writer, pool, closeOnce>>

\* Close, part_000 lines 210-223 and devmapper.go lines 197-211: close the
\* MetaStore, then the pool, and return the errors of both.  In part_000
\* the two closes run inside closeOnce.Do and the errors are collected in a
\* local of the call.  The store's Close waits for the open transaction.
Close(o, storeOk, poolOk) ==
    /\ ops[o].pc = "called"
    /\ ops[o].op = "Close"
    /\ IF impl = "Snapshotter" /\ closeOnce
         THEN /\ ops' = [ops EXCEPT ![o].pc = "done", ![o].ret = <<>>]
              /\ UNCHANGED <<store, pool, closeOnce>>
         ELSE /\ writer = 0
              /\ store' = [store EXCEPT !.closes = @ + 1, !.open = @ /\ ~storeOk]
              /\ pool' = [pool EXCEPT !.closes = @ + 1]
              /\ closeOnce' = (impl = "Snapshotter")
              /\ ops' = [ops EXCEPT ![o].pc = "done",
                                    ![o].ret = (IF storeOk THEN <<>> ELSE <<"store close failed">>)
                                               \o (IF poolOk THEN <<>> ELSE <<"pool close failed">>),
                                    ![o].trace = <<"store.Close", "pool.Close">>]
    /\ UNCHANGED <<shimVars, starts, proxies, dial, impl, writer>>

NextSnap ==
    \/ \E o \in SnapOps, op \in OpKinds : \E a \in OpArgs(op) : Invoke(o, op, a[1], a[2])
    \/ \E o \in SnapOps, ok \in BOOLEAN : TransactionContext(o, ok)
    \/ \E o \in SnapOps, stOk \in BOOLEAN, devOk \in BOOLEAN, mkfsOk \in BOOLEAN,
          txOk \in BOOLEAN : createSnapshot(o, stOk, devOk, mkfsOk, txOk)
    \/ \E o \in SnapOps, stOk \in BOOLEAN, txOk \in BOOLEAN : Commit(o, stOk, txOk)
    \/ \E o \in SnapOps, stOk \in BOOLEAN, devOk \in BOOLEAN, txOk \in BOOLEAN :
          Remove(o, stOk, devOk, txOk)
    \/ \E o \in SnapOps, stOk \in BOOLEAN, txOk \in BOOLEAN : Update(o, stOk, txOk)
    \/ \E o \in SnapOps, beginOk \in BOOLEAN, stOk \in BOOLEAN, txOk \in BOOLEAN :
          Stat(o, beginOk, stOk, txOk)
    \/ \E o \in SnapOps, beginOk \in BOOLEAN, fnOk \in BOOLEAN, txOk \in BOOLEAN :
          Walk(o, beginOk, fnOk, txOk)
    \/ \E o \in SnapOps, beginOk \in BOOLEAN, stOk \in BOOLEAN, txOk \in BOOLEAN :
          Mounts(o, beginOk, stOk, txOk)
    \/ \E o \in SnapOps, storeOk \in BOOLEAN, poolOk \in BOOLEAN : Close(o, storeOk, poolOk)

InitSnap ==
    /\ shimInit
    /\ dial = dialStart
    /\ starts = [s \in Starts |-> startIdle]
    /\ proxies = [p \in Streams |-> noProxy]
    /\ snapInit(Impls, Disks)

SpecSnap == InitSnap /\ [][NextSnap]_vars

----------------------------------------------------------------------------
\* Properties of the snapshotter.

\* Call o returns in this step.
Returns(o, op) == ops[o].op = op /\ ops[o].pc # "done" /\ ops'[o].pc = "done"

\* C12: when Remove(k) returns without an error, the MetaStore holds no
\* record for k and the pool no device named after the id k had.
C12_RemoveLeavesNothing ==
    [][\A o \in SnapOps :
          (Returns(o, "Remove") /\ ops'[o].ret = <<>>) =>
             /\ ~Exists(store', ops[o].key)
             /\ ~HasDevice(pool', getDeviceName(store.recs[ops[o].key].id))]_vars

\* C13: when the device removal inside Remove(k) fails, Remove returns the
\* error of the removal and rolls the transaction back: the records of the
\* store, the one for k among them, and the devices of the pool are as
\* they were before the call's body ran.
C13_FailedDeviceRemovalRollsBack ==
    [][\A o \in SnapOps :
          (Returns(o, "Remove") /\ Has(ops'[o].trace, "RemoveDevice failed")) =>
             /\ ops'[o].ret # <<>>
             /\ ops'[o].ret[1] \in {"device error", "device not found"}
             /\ ops'[o].trace[Len(ops'[o].trace)] \in {"rollback", "rollback failed"}
             /\ store' = store
             /\ Exists(store', ops[o].key)
             /\ pool' = pool]_vars

\* a Remove of an existing snapshot has returned the error of the device
\* removal; record and device are there
C13_Witness ==
    \E o \in SnapOps :
       /\ ops[o].op = "Remove"
       /\ ops[o].pc = "done"
       /\ ops[o].ret[1] = "device error"
       /\ Has(ops[o].trace, "RemoveDevice failed")
       /\ Exists(store, ops[o].key)
       /\ HasDevice(pool, getDeviceName(store.recs[ops[o].key].id))

\* The keys the MetaStore holds a committed record for.
Recorded == {k \in Keys : Exists(store, k)}

\* C14: between snapshotter calls, whether they succeeded or failed, the
\* records of the MetaStore and the devices of the pool correspond one to
\* one under the name <pool>-snap-<id>.
C14_RecordsMatchDevices ==
    /\ {getDeviceName(store.recs[k].id) : k \in Recorded} = {d.name : d \in pool.devices}
    /\ Cardinality(Recorded) = Cardinality(pool.devices)

\* The one mount a snapshot record rec calls for.
MountOf(rec) ==
    <<[type |-> "ext4", source |-> <<"/dev/mapper", <<"pool", "snap", rec.id>>>>,
       options |-> IF rec.kind = "Active" THEN <<>> ELSE <<"ro">>]>>

\* C15: the mounts that Mounts(k) returns for an existing snapshot k, and
\* the mounts that Prepare and View return for the snapshot they made, are
\* exactly one ext4 mount of /dev/mapper/<pool>-snap-<id(k)>, with the
\* option "ro" exactly when the snapshot's kind is not Active.
C15_MountsOfSnapshot ==
    [][\A o \in SnapOps :
          /\ (Returns(o, "Mounts") /\ Exists(store, ops[o].key) /\ ops'[o].ret = <<>>) =>
                ops'[o].mounts = MountOf(store.recs[ops[o].key])
          /\ ((Returns(o, "Prepare") \/ Returns(o, "View")) /\ ops'[o].ret = <<>>
                 /\ Exists(store', ops[o].key)) =>
                ops'[o].mounts = MountOf(store'.recs[ops[o].key])]_vars

\* What a call shows when the store, the pool, mkfs or the end of the
\* transaction failed under it.
FaultTags == {"EIO", "device error", "mkfs failed", "begin failed", "commit failed",
              "rollback failed", "store close failed", "pool close failed"}

NoFault(o) ==
    /\ \A i \in 1..Len(ops[o].trace) : ops[o].trace[i] \notin FaultTags
    /\ \A i \in 1..Len(ops[o].ret) : ops[o].ret[i] \notin FaultTags

\* The Prepare calls for key k.
Prepares(k) == {o \in SnapOps : ops[o].op = "Prepare" /\ ops[o].key = k}

MadeDevice(o) ==
    Has(ops[o].trace, "CreateThinDevice") \/ Has(ops[o].trace, "CreateSnapshotDevice")

\* C16: when the calls made are Prepare calls, each without a parent or on
\* a committed parent, all have returned, and no store or device operation
\* failed: of the Prepare calls for a key that was absent when the first of
\* them arrived exactly one succeeded, every other failed with
\* AlreadyExists, and exactly one of them made a device; so calls for
\* distinct keys all succeeded.
C16_ConcurrentPrepare ==
    (\A o \in SnapOps :
        /\ ops[o].op \in {"none", "Prepare"}
        /\ ops[o].pc \in {"idle", "done"}
        /\ NoFault(o)
        /\ ops[o].arg = "" \/ (Exists(store, ops[o].arg) /\ store.recs[ops[o].arg].kind = "Committed"))
    => \A k \in Keys :
          (\E o \in Prepares(k) : ops[o].fresh) =>
             /\ Cardinality({o \in Prepares(k) : ops[o].ret = <<>>}) = 1
             /\ \A o \in Prepares(k) : ops[o].ret \in {<<>>, <<"AlreadyExists">>}
             /\ Cardinality({o \in Prepares(k) : MadeDevice(o)}) = 1
             /\ Exists(store, k)
             /\ HasDevice(pool, getDeviceName(store.recs[k].id))

\* two Prepare calls for the same key ran at the same time; the one that
\* arrived second won
C16_Witness ==
    \E o1 \in SnapOps, o2 \in SnapOps :
       /\ o1 \in ops[o2].conc
       /\ ops[o1].op = "Prepare" /\ ops[o2].op = "Prepare"
       /\ ops[o1].key = ops[o2].key
       /\ ops[o1].pc = "done" /\ ops[o2].pc = "done"
       /\ ops[o1].ret = <<"AlreadyExists">>
       /\ ops[o2].ret = <<>>
       /\ NoFault(o1) /\ NoFault(o2)

\* The Close calls that have returned.
Closed == {o \in SnapOps : ops[o].op = "Close" /\ ops[o].pc = "done"}

\* C17: however many Close calls have returned, the MetaStore has been
\* closed exactly once and the pool exactly once; the call that closed the
\* store went on to close the pool.
C17_ClosedExactlyOnce ==
    Closed # {} =>
       /\ store.closes = 1
       /\ pool.closes = 1
       /\ \A o \in Closed : Has(ops[o].trace, "store.Close") => Has(ops[o].trace, "pool.Close")

\* C18: of two Close calls made one after the other, the second returns
\* the same aggregated error as the first.
C18_CloseReturnsSameError ==
    \A o1 \in Closed, o2 \in Closed :
       (o1 < o2 /\ o1 \notin ops[o2].conc) => ops[o2].ret = ops[o1].ret

----------------------------------------------------------------------------
\* Properties of the state monitor and of the CID allocator.

\* C19: a monitor that has observed the task stopped publishes TaskExit
\* before it invokes Shutdown, and once it has finished the shim process
\* has terminated, also when the VM stop inside Shutdown failed.
C19_MonitorEndsProcess ==
    \A t \in Monitors :
       Has(th[t].trace, "publish") =>
          /\ Before(th[t].trace, "publish", "agentShutdown")
          /\ th[t].pc = "done" => proc # "running"

\* The ioctls a call has issued.
Ioctls(i) == Count(th[i].trace, "ioctl")

\* C20: findNextAvailableVsockCID tries the CIDs 3, 4, ... in this order,
\* one ioctl each; it goes on to the next CID only when the ioctl found the
\* CID in use and returns the first CID whose ioctl succeeded; it returns
\* at once when the ioctl fails otherwise, and returns the context's error
\* without another ioctl when the context is cancelled.
C20_FirstFreeCID ==
    /\ [](\A i \in Calls :
            /\ th[i].pc = "fc_scan" =>
                  th[i].contextID >= 3 /\ Ioctls(i) = th[i].contextID - 3
            /\ th[i].ret = "err_ctx" => Ioctls(i) = th[i].contextID - 3
            /\ th[i].ret = "err_ioctl" => Ioctls(i) = th[i].contextID - 3 + 1
            /\ th[i].pc = "fc_close" =>
                  fileCID[i] = th[i].contextID /\ Ioctls(i) = th[i].contextID - 3 + 1)
    /\ [][\A i \in Calls :
            th[i].pc = "fc_scan" =>
               /\ th'[i].contextID # th[i].contextID =>
                     /\ th'[i].contextID = th[i].contextID + 1
                     /\ CidInUse(th[i].contextID, i)
                     /\ th'[i].pc = "fc_scan"
               /\ th'[i].pc = "fc_close" =>
                     /\ ~CidInUse(th[i].contextID, i)
                     /\ th'[i].contextID = th[i].contextID
               /\ th'[i].ret \in {"err_ctx", "err_ioctl"} =>
                     th'[i].contextID = th[i].contextID]_vars

\* a scan found CID 3 in use and reserved CID 4 with its second ioctl
C20_Witness ==
    \E i \in Calls :
       /\ th[i].pc = "fc_close"
       /\ fileCID[i] = 4
       /\ Ioctls(i) = 2

\* C21 as stated: the scan attempts every CID from 3 up to and including
\* the maximum, so that it fails with "no available context id" only after
\* an ioctl on each of them, the maximum included.
C21_ScanIncludesMax ==
    \A i \in Calls : th[i].ret = "err_nocid" => Ioctls(i) = maxCID - startCID + 1

\* C21 amended: the scan attempts the CIDs from 3 up to the maximum
\* excluded; no call is ever given the maximum CID, and a scan that found
\* every CID below the maximum in use fails with "no available context id"
\* after one ioctl on each of them and none on the maximum.
C21_ScanStopsBelowMax ==
    \A i \in Calls :
       /\ th[i].pc = "fc_scan" => th[i].contextID <= maxCID
       /\ fileCID[i] < maxCID
       /\ th[i].cid < maxCID
       /\ th[i].ret = "err_nocid" =>
             /\ th[i].contextID = maxCID
             /\ Ioctls(i) = maxCID - startCID
             /\ fileCID[i] = 0 /\ th[i].cid = 0

\* a scan found every CID below the maximum in use and failed, while no
\* handle holds the maximum CID
C21_Witness ==
    \E i \in Calls :
       /\ th[i].ret = "err_nocid"
       /\ Ioctls(i) = maxCID - startCID
       /\ ~CidInUse(maxCID, i)

\* C22: once the context dialVsock was called with is cancelled, the loop
\* stops: no Dial is made after the cancellation, and dialVsock returns
\* without the attempts that remained.
C22_CancelStopsDialing ==
    dial.ctxDone => dial.late = 0

----------------------------------------------------------------------------
\* Properties of the snapshotter's transactions.

\* The steps that end a transaction: a call of Commit or of Rollback.
CommitSteps == {"commit", "commit failed"}

RollbackSteps == {"rollback", "rollback failed"}

Ends(o) == Cardinality({k \in 1..Len(ops[o].trace) :
                           ops[o].trace[k] \in CommitSteps \cup RollbackSteps})

LastStep(o) == ops[o].trace[Len(ops[o].trace)]

\* The call opened a transaction.
Began(o) == Has(ops[o].trace, "begin")

\* C23: a call that opened a MetaStore transaction has ended it exactly
\* once when it returns, by Commit or by Rollback, as its last step, and
\* not before; a call that opened none ends none.  Stat, Mounts and Walk
\* end theirs by Rollback; Update, Prepare, View, Commit and Remove end
\* theirs by Commit when their body returned no error, by Rollback otherwise.
C23_TransactionEndedOnce ==
    \A o \in SnapOps :
       /\ ~Began(o) => Ends(o) = 0
       /\ ops[o].pc = "intx" => (Began(o) /\ Ends(o) = 0 /\ writer = o)
       /\ (Began(o) /\ ops[o].pc = "done") =>
             /\ Ends(o) = 1
             /\ LastStep(o) \in CommitSteps \cup RollbackSteps
             /\ ops[o].op \in {"Stat", "Mounts", "Walk"} => LastStep(o) \in RollbackSteps
             /\ ops[o].op \in {"Update", "Prepare", "View", "Commit", "Remove"} =>
                   /\ ops[o].body = <<>> => LastStep(o) \in CommitSteps
                   /\ ops[o].body # <<>> => LastStep(o) \in RollbackSteps
       /\ writer = o => ops[o].pc = "intx"

\* a Stat whose GetInfo succeeded has rolled back, and an Update whose
\* UpdateInfo failed has rolled back too
C23_Witness ==
    \E o1 \in SnapOps, o2 \in SnapOps :
       /\ ops[o1].op = "Stat" /\ ops[o1].pc = "done"
       /\ ops[o1].body = <<>> /\ ops[o1].trace = <<"begin", "GetInfo", "rollback">>
       /\ ops[o2].op = "Update" /\ ops[o2].pc = "done"
       /\ ops[o2].body = <<"NotFound">>
       /\ ops[o2].trace = <<"begin", "UpdateInfo", "rollback">>

\* The errors with which the creation of the record can fail.
RecordErrs == {"AlreadyExists", "NotFound", "InvalidArgument", "EIO"}

\* C24: Prepare and View create the MetaStore record first and touch the
\* pool only after it: when the creation of the record fails no device
\* operation is made; a record without parent gets a fresh thin device
\* named <pool>-snap-<id>, which is then formatted; a record with a parent
\* gets a snapshot device of that name made from the device of the
\* immediate parent, and mkfs is not run.
C24_RecordThenDevice ==
    [][\A o \in SnapOps :
          (Returns(o, "Prepare") \/ Returns(o, "View")) =>
             LET t == ops'[o].trace
                 made == pool'.devices \ pool.devices
                 name == <<"pool", "snap", ops[o].tx.seq + 1>>
                 failed == ops'[o].body # <<>> /\ ops'[o].body[1] \in RecordErrs
             IN /\ \A d \in pool.devices : \E e \in pool'.devices : e.name = d.name
                /\ Cardinality(made) <= 1
                /\ ~Has(t, "CreateSnapshot") => pool' = pool
                /\ Has(t, "CreateSnapshot") =>
                      /\ t[2] = "CreateSnapshot"
                      /\ Count(t, "CreateSnapshot") = 1
                /\ failed =>
                      /\ pool' = pool
                      /\ ~Has(t, "CreateThinDevice") /\ ~Has(t, "CreateSnapshotDevice")
                      /\ ~Has(t, "mkfs")
                /\ (Has(t, "CreateSnapshot") /\ ~failed /\ ops[o].arg = "") =>
                      /\ ~Has(t, "CreateSnapshotDevice")
                      /\ Has(t, "CreateThinDevice")
                      /\ \A d \in made : d.name = name /\ d.parent = <<>>
                      /\ made # {} => Has(t, "mkfs") /\ Before(t, "CreateThinDevice", "mkfs")
                      /\ ops'[o].body = <<>> => \E d \in pool'.devices : d.name = name /\ d.fs
                /\ (Has(t, "CreateSnapshot") /\ ~failed /\ ops[o].arg # "") =>
                      /\ ~Has(t, "CreateThinDevice") /\ ~Has(t, "mkfs")
                      /\ Has(t, "CreateSnapshotDevice")
                      /\ \A d \in made :
                            /\ d.name = name
                            /\ d.parent = <<"pool", "snap", ops[o].tx.recs[ops[o].arg].id>>
                      /\ ops'[o].body = <<>> => made # {}]_vars

\* a Prepare on a parent that has a parent itself succeeded, and its device
\* is a snapshot of the parent's device, not of the grandparent's
C24_Witness ==
    \E o \in SnapOps :
       /\ ops[o].op = "Prepare" /\ ops[o].pc = "done" /\ ops[o].ret = <<>>
       /\ ops[o].arg # ""
       /\ Exists(store, ops[o].key) /\ Exists(store, ops[o].arg)
       /\ Len(store.recs[ops[o].key].parents) = 2
       /\ \E d \in pool.devices :
             /\ d.name = getDeviceName(store.recs[ops[o].key].id)
             /\ d.parent = getDeviceName(store.recs[ops[o].arg].id)
             /\ d.parent # getDeviceName(store.recs[ops[o].key].parents[2])

\* C27: an Update, Prepare, View, Commit or Remove that returns no error
\* has committed its transaction: when the body succeeded and the Commit of
\* the transaction failed, the call returns an error.
C27_SuccessMeansCommitted ==
    \A o \in SnapOps :
       (ops[o].op \in Writable /\ ops[o].pc = "done" /\ ops[o].ret = <<>>) =>
          LastStep(o) = "commit"

\* C28: Mounts(k) returns mounts and no error only when the MetaStore holds
\* a record for k; for a key without a record, and whenever the fetch of
\* the record or its transaction fails, Mounts returns an error and no
\* mounts, as Stat(k) returns an error for a key without a record.
C28_MountsOnlyOfRecorded ==
    [][\A o \in SnapOps :
          /\ Returns(o, "Mounts") =>
                /\ ops'[o].ret = <<>> => Exists(store, ops[o].key)
                /\ ops'[o].body # <<>> => ops'[o].ret # <<>>
                /\ ops'[o].ret # <<>> => ops'[o].mounts = <<>>
          /\ (Returns(o, "Stat") /\ ~Exists(store, ops[o].key)) =>
                /\ ops'[o].ret # <<>>
                /\ ops'[o].info = noRec]_vars

----------------------------------------------------------------------------
\* Properties of the shim's handles.

\* C29: once a Create has booted the VM (the agent client and the machine
\* are set), no handler uses a handle that was never set: no Kill, Shutdown
\* or Start and no state monitor dereferences a nil cancel function or
\* context, and every monitor was handed a context that a Create recorded;
\* also when the agent Create RPC or the bundle packing of that Create
\* failed.
C29_NoUnsetHandleUsed ==
    (agentClient # 0 /\ machine # 0) =>
       /\ proc # "panicked"
       /\ \A t \in Threads : th[t].ret # "panic"
       /\ \A t \in Monitors : th[t].op = "monitorState" => th[t].mctx # 0

----------------------------------------------------------------------------
\* StartShim, service.go lines 105-157.  The child it starts runs
\* concurrently with the rest of the function, which is cut into steps at
\* the three writes that follow cmd.Start.

\* shim.SocketAddress: the address of the shim's socket for task id.
SocketAddress(id) == <<"shim", id>>

\* A return of StartShim with the deferred functions, which run last
\* registered first: the Kill of the child when the variable err of the
\* function's scope is not nil (lines 136-140, registered once cmd.Start
\* succeeded), f.Close (line 128), socket.Close (line 121).
startReturn(r, address, e) ==
    LET kills == r.child # "none" /\ r.err # "nil"
    IN [r EXCEPT !.pc = "done", !.address = address, !.ret = e,
                 !.child = IF kills /\ r.child = "running" THEN "killed" ELSE @,
                 !.file = IF @ = "open" THEN "closed" ELSE @,
                 !.socket = IF @ = "open" THEN "closed" ELSE @,
                 !.trace = @ \o (IF kills THEN <<"Kill">> ELSE <<>>)]

\* StartShim up to cmd.Start, lines 106-134.  newCommand, SocketAddress,
\* NewSocket and socket.File assign the function's err; the error of
\* cmd.Start is held by a variable of the if statement.
StartShim(s, id, cmdOk, addrOk, sockOk, fileOk, startOk) ==
    /\ starts[s].pc = "idle"
    /\ (s > 1 => starts[s - 1].pc # "idle")
    /\ LET r0 == [starts[s] EXCEPT !.id = id]
           r1 == [r0 EXCEPT !.socket = "open"]
           r2 == [r1 EXCEPT !.file = "open"]
       IN starts' = [starts EXCEPT ![s] =
             IF ~cmdOk THEN startReturn([r0 EXCEPT !.err = "newCommand"], <<>>, "newCommand")
             ELSE IF ~addrOk
               THEN startReturn([r0 EXCEPT !.err = "SocketAddress"], <<>>, "SocketAddress")
             ELSE IF ~sockOk
               THEN startReturn([r0 EXCEPT !.err = "NewSocket"], <<>>, "NewSocket")
             ELSE IF ~fileOk
               THEN startReturn([r1 EXCEPT !.err = "File"], <<>>, "File")
             ELSE IF ~startOk
               THEN startReturn(r2, <<>>, "Start")
             ELSE [r2 EXCEPT !.pc = "pid", !.child = "running", !.trace = <<"Start">>]]
    /\ UNCHANGED <<shimVars, dial, snapVars, proxies>>

\* shim.WritePidFile, lines 144-146.
WritePidFile(s, ok) ==
    /\ starts[s].pc = "pid"
    /\ starts' = [starts EXCEPT ![s] =
          IF ok THEN [@ EXCEPT !.pc = "address", !.pidFile = TRUE,
                               !.trace = @ \o <<"WritePidFile">>]
          ELSE startReturn([@ EXCEPT !.trace = @ \o <<"WritePidFile">>], <<>>, "WritePidFile")]
    /\ UNCHANGED <<shimVars, dial, snapVars, proxies>>

\* shim.WriteAddress, lines 148-150.
WriteAddress(s, ok) ==
    /\ starts[s].pc = "address"
    /\ starts' = [starts EXCEPT ![s] =
          IF ok THEN [@ EXCEPT !.pc = "score", !.addressFile = TRUE,
                               !.trace = @ \o <<"WriteAddress">>]
          ELSE startReturn([@ EXCEPT !.trace = @ \o <<"WriteAddress">>], <<>>, "WriteAddress")]
    /\ UNCHANGED <<shimVars, dial, snapVars, proxies>>

\* shim.SetScore and the last return, lines 152-157.
SetScore(s, ok) ==
    /\ starts[s].pc = "score"
    /\ starts' = [starts EXCEPT ![s] =
          IF ok THEN startReturn([@ EXCEPT !.score = TRUE, !.trace = @ \o <<"SetScore">>],
                                 SocketAddress(@.id), "nil")
          ELSE startReturn([@ EXCEPT !.trace = @ \o <<"SetScore">>], <<>>, "SetScore")]
    /\ UNCHANGED <<shimVars, dial, snapVars, proxies>>

\* The child shim ends by itself.
childExits(s) ==
    /\ starts[s].child = "running"
    /\ starts' = [starts EXCEPT ![s].child = "exited"]
    /\ UNCHANGED <<shimVars, dial, snapVars, proxies>>

\* go cmd.Wait(), line 143: the child that ended is reaped while the
\* process that ran StartShim lives.
cmdWait(s) ==
    /\ starts[s].pc \in {"pid", "address", "score"}
    /\ starts[s].child = "exited"
    /\ starts' = [starts EXCEPT ![s].child = "reaped"]
    /\ UNCHANGED <<shimVars, dial, snapVars, proxies>>

NextStart ==
    \/ \E s \in Starts, id \in TaskIds, cmdOk \in BOOLEAN, addrOk \in BOOLEAN,
          sockOk \in BOOLEAN, fileOk \in BOOLEAN, startOk \in BOOLEAN :
          StartShim(s, id, cmdOk, addrOk, sockOk, fileOk, startOk)
    \/ \E s \in Starts, ok \in BOOLEAN : WritePidFile(s, ok)
    \/ \E s \in Starts, ok \in BOOLEAN : WriteAddress(s, ok)
    \/ \E s \in Starts, ok \in BOOLEAN : SetScore(s, ok)
    \/ \E s \in Starts : childExits(s)
    \/ \E s \in Starts : cmdWait(s)

SpecStart == Init /\ [][NextStart]_vars

\* C30: when StartShim returns an error after it started the child (the
\* write of shim.pid, the write of the address file or the setting of the
\* OOM score failed), it has killed the child before: no run of StartShim
\* that failed leaves its child running.
C30_FailedStartKillsChild ==
    \A s \in Starts :
       (starts[s].pc = "done" /\ starts[s].ret \in {"WritePidFile", "WriteAddress", "SetScore"}) =>
          /\ starts[s].child # "running"
          /\ starts[s].child \in {"killed", "exited", "reaped"}

----------------------------------------------------------------------------
\* The pass-through methods and Cleanup, service.go lines 289-353 and
\* 374-416, 435-475.

PassMethods == {"Delete", "Exec", "ResizePty", "State", "Pause", "Resume", "Pids",
                "CloseIO", "Checkpoint", "Connect", "Stats", "Update", "Wait"}

\* The requests a caller makes, and what the agent answers: a response or
\* an error.
Reqs == {"q1", "q2"}

AgentOuts == {[ok |-> TRUE, val |-> "r1"], [ok |-> FALSE, val |-> "e1"]}

\* unix.SIGKILL.
SIGKILL == 9

\* The shim after its first Create succeeded: createTask has returned the
\* agent's response and recorded the per-task context.
taskInit ==
    /\ agentStarted = TRUE
    /\ agentClient = 1
    /\ machine = 1
    /\ machineCID = startCID
    /\ ctx = 1
    /\ cancelled = {}
    /\ serverClosed = FALSE
    /\ proc = "running"
    /\ vm = [i \in Calls |-> IF i = 1 THEN [state |-> "running", cid |-> startCID, holds |-> TRUE]
                             ELSE noVM]
    /\ fileCID = [i \in Calls |-> 0]
    /\ th = [t \in Threads |->
               IF t = 1
                 THEN [idleThread EXCEPT !.op = "Create", !.pc = "done", !.fs = "ext4",
                                         !.contextID = startCID, !.cid = startCID,
                                         !.ret = "resp",
                                         !.trace = <<"startVM", "ioctl", "NewMachine", "Start",
                                                     "dial", "agentStarted", "agentCreate">>]
                 ELSE idleThread]
    /\ published = 0
    /\ taskStopped = FALSE

\* A pass-through method that wraps the agent's error.
PassThrough_WrapsError(i, m, req, out) ==
    /\ CanCall(i)
    /\ UNCHANGED <<svc, cancelled, serverClosed, vm, fileCID, published, taskStopped>>
    /\ UNCHANGED <<dial, snapVars, starts, proxies>>
    /\ IF agentClient = 0
         THEN Panic(i, m, <<>>)
         ELSE /\ th' = [th EXCEPT ![i].op = m, ![i].pc = "done", ![i].req = req,
                                  ![i].sent = req, ![i].got = out.val,
                                  ![i].ret = IF out.ok THEN out.val ELSE "wrapped",
                                  ![i].agentErr = ~out.ok, ![i].trace = <<m>>]
              /\ UNCHANGED proc

\* Delete, Exec, ResizePty, State, Pause, Resume, Pids, CloseIO, Checkpoint,
\* Connect, Stats, Update and Wait: s.agentClient.<method>(ctx, req), then
\* return nil and the error, or the response and nil.
PassThrough(i, m, req, out) ==
    /\ CanCall(i)
    /\ UNCHANGED <<svc, cancelled, serverClosed, vm, fileCID, published, taskStopped>>
    /\ UNCHANGED <<dial, snapVars, starts, proxies>>
    /\ IF agentClient = 0
         THEN Panic(i, m, <<>>)
         ELSE /\ th' = [th EXCEPT ![i].op = m, ![i].pc = "done", ![i].req = req,
                                  ![i].sent = req, ![i].got = out.val, ![i].ret = out.val,
                                  ![i].agentErr = ~out.ok, ![i].trace = <<m>>]
              /\ UNCHANGED proc

\* Cleanup, lines 467-475: a DeleteResponse with exit status 128 + SIGKILL.
Cleanup(i) ==
    /\ CanCall(i)
    /\ th' = [th EXCEPT ![i].op = "Cleanup", ![i].pc = "done", ![i].ret = "resp",
                        ![i].status = 128 + SIGKILL]
    /\ UNCHANGED <<svc, cancelled, serverClosed, proc, vm, fileCID, published, taskStopped>>
    /\ UNCHANGED <<dial, snapVars, starts, proxies>>

NextPass ==
    \/ \E i \in Calls, m \in PassMethods, req \in Reqs, out \in AgentOuts :
          PassThrough(i, m, req, out)
    \/ \E i \in Calls : Cleanup(i)

\* The shim before any Create, or after its first Create succeeded.
InitPass ==
    /\ shimInit \/ taskInit
    /\ dial = dialStart
    /\ snapInit({"Snapshotter"}, {[recs |-> noTx.recs, seq |-> 0, devices |-> {}]})
    /\ starts = [s \in Starts |-> startIdle]
    /\ proxies = [p \in Streams |-> noProxy]

SpecPass == InitPass /\ [][NextPass]_vars

\* A call of the host daemon is served by this step and returns in it.
Serves(i) == th[i].op = "none" /\ th'[i].pc = "done"

\* C26: a pass-through method that returns has made exactly one agent
\* call, of its own method and with the caller's request, and returns what
\* the agent returned, response or error; Cleanup makes no agent call and
\* returns exit status 137 (128 + SIGKILL); neither changes the agent
\* started flag, the agent client, the machine, the CID, the per-task
\* context or its cancellation, nor anything else of the shim.
C26_PassThrough ==
    [][\A i \in Calls :
          /\ (Serves(i) /\ th'[i].op \in PassMethods) =>
                /\ th'[i].trace = <<th'[i].op>>
                /\ th'[i].sent = th'[i].req
                /\ th'[i].ret = th'[i].got
                /\ th'[i].agentErr = (th'[i].got \in {o.val : o \in {a \in AgentOuts : ~a.ok}})
                /\ <<agentStarted, agentClient, machine, machineCID, ctx, cancelled>>' =
                      <<agentStarted, agentClient, machine, machineCID, ctx, cancelled>>
                /\ <<serverClosed, proc, vm, fileCID, published, taskStopped>>' =
                      <<serverClosed, proc, vm, fileCID, published, taskStopped>>
                /\ \A t \in Threads \ {i} : th'[t] = th[t]
          /\ (Serves(i) /\ th'[i].op = "Cleanup") =>
                /\ th'[i].trace = <<>>
                /\ th'[i].sent = ""
                /\ th'[i].ret = "resp"
                /\ th'[i].status = 137
                /\ <<agentStarted, agentClient, machine, machineCID, ctx, cancelled>>' =
                      <<agentStarted, agentClient, machine, machineCID, ctx, cancelled>>
                /\ <<serverClosed, proc, vm, fileCID, published, taskStopped>>' =
                      <<serverClosed, proc, vm, fileCID, published, taskStopped>>
                /\ \A t \in Threads \ {i} : th'[t] = th[t]]_vars

\* after a Create, a State call has returned the agent's error and a
\* Cleanup status 137, and the shim's handles are as Create left them
C26_Witness ==
    \E i \in Calls, j \in Calls :
       /\ th[i].op = "State" /\ th[i].pc = "done" /\ th[i].agentErr
       /\ th[i].ret = "e1" /\ th[i].sent = "q2"
       /\ th[j].op = "Cleanup" /\ th[j].status = 137
       /\ agentStarted /\ agentClient = 1 /\ machine = 1 /\ ctx = 1 /\ cancelled = {}

----------------------------------------------------------------------------
\* The stdio proxies, proxyStdio and proxyIO, service.go lines 250-287,
\* with the handlers and the state monitor of the task they belong to.

\* The fifo paths a Create request can carry: those of a task with a
\* terminal (stdin and stdout, no stderr) and of one that only writes.
Requests == {[stdin |-> "fifo", stdout |-> "fifo", stderr |-> ""],
             [stdin |-> "", stdout |-> "fifo", stderr |-> ""]}

\* proxyStdio, lines 250-254: a proxy just spawned with the per-task
\* context c for stream p.
spawned(p, path, c) ==
    [noProxy EXCEPT !.pc = "start", !.path = path, !.in = (p = "stdin"), !.mctx = c]

\* proxyIO, lines 257-265: nothing to do for an empty path; else open the fifo.
proxyIO(p, openOk) ==
    /\ proc = "running"
    /\ proxies[p].pc = "start"
    /\ proxies' = [proxies EXCEPT ![p] =
          IF @.path = "" \/ ~openOk THEN [@ EXCEPT !.pc = "returned"]
          ELSE [@ EXCEPT !.pc = "dial", !.fifo = "open"]]
    /\ UNCHANGED <<shimVars, dial, snapVars, starts>>

\* proxyIO, lines 266-283: dial the agent's port; on an error close the fifo
\* and return; else spawn the goroutine that waits for the context and
\* begin to copy.
proxyDial(p, ok) ==
    /\ proc = "running"
    /\ proxies[p].pc = "dial"
    /\ proxies' = [proxies EXCEPT ![p] =
          IF ok THEN [@ EXCEPT !.pc = "copy", !.conn = "open", !.closer = "waiting",
                               !.copy = "running"]
          ELSE [@ EXCEPT !.pc = "returned", !.fifo = "closed"]]
    /\ UNCHANGED <<shimVars, dial, snapVars, starts>>

\* The goroutine of lines 272-276 that leaves the fifo open.
proxyCloser_ConnOnly(p) ==
    /\ proc = "running"
    /\ proxies[p].closer = "waiting"
    /\ proxies[p].mctx \in cancelled
    /\ proxies' = [proxies EXCEPT ![p].conn = "closed", ![p].closer = "done"]
    /\ UNCHANGED <<shimVars, dial, snapVars, starts>>

\* The goroutine of lines 272-276: once the context is done, close the
\* connection and the fifo.
proxyCloser(p) ==
    /\ proc = "running"
    /\ proxies[p].closer = "waiting"
    /\ proxies[p].mctx \in cancelled
    /\ proxies' = [proxies EXCEPT ![p].conn = "closed", ![p].fifo = "closed",
                                  ![p].closer = "done"]
    /\ UNCHANGED <<shimVars, dial, snapVars, starts>>

\* io.CopyBuffer, lines 279-286, returns because the other side ended the
\* stream or an endpoint failed; proxyIO returns and closes nothing.
copyEnds(p) ==
    /\ proc = "running"
    /\ proxies[p].copy = "running"
    /\ proxies[p].conn = "open" /\ proxies[p].fifo = "open"
    /\ proxies' = [proxies EXCEPT ![p].copy = "ended", ![p].pc = "returned"]
    /\ UNCHANGED <<shimVars, dial, snapVars, starts>>

\* io.CopyBuffer returns because one of its endpoints was closed.
copyAborts(p) ==
    /\ proc = "running"
    /\ proxies[p].copy = "running"
    /\ proxies[p].conn = "closed" \/ proxies[p].fifo = "closed"
    /\ proxies' = [proxies EXCEPT ![p].copy = "ended", ![p].pc = "returned"]
    /\ UNCHANGED <<shimVars, dial, snapVars, starts>>

NextIO ==
    \/ \E p \in Streams, openOk \in BOOLEAN : proxyIO(p, openOk)
    \/ \E p \in Streams, ok \in BOOLEAN : proxyDial(p, ok)
    \/ \E p \in Streams : proxyCloser(p)
    \/ \E p \in Streams : copyEnds(p)
    \/ \E p \in Streams : copyAborts(p)
    \/ \E i \in Calls, agentOk \in BOOLEAN : Start(i, agentOk)
    \/ TaskExits
    \/ \E t \in Monitors : monitorDone(t)
    \/ \E t \in Monitors : monitorState(t)
    \/ \E i \in Calls, agentOk \in BOOLEAN : Kill(i, agentOk)
    \/ \E i \in Calls, stopOk \in BOOLEAN : KillDeferred(i, stopOk)
    \/ \E t \in Threads, agentOk \in BOOLEAN : Shutdown(t, agentOk)
    \/ \E t \in Threads, stopOk \in BOOLEAN : ShutdownStop(t, stopOk)

\* The shim when its first Create has succeeded, line 198: the per-task
\* context is recorded and the three proxies are spawned with the paths of
\* the request.
InitIO ==
    /\ taskInit
    /\ dial = dialStart
    /\ snapInit({"Snapshotter"}, {[recs |-> noTx.recs, seq |-> 0, devices |-> {}]})
    /\ starts = [s \in Starts |-> startIdle]
    /\ \E request \in Requests :
          proxies = [p \in Streams |-> spawned(p, request[p], 1)]

SpecIO == InitIO /\ [][NextIO]_vars

\* Goroutines that can run do run: the goroutine that waits for the
\* context, a copy whose endpoint was closed, the monitor's select on a
\* context that is done, and the Shutdown a monitor has begun.
FairIO ==
    /\ \A p \in Streams : WF_vars(proxyCloser(p)) /\ WF_vars(copyAborts(p))
    /\ \A t \in Monitors :
          /\ WF_vars(monitorDone(t))
          /\ WF_vars(\E agentOk \in BOOLEAN : Shutdown(t, agentOk))
          /\ WF_vars(\E stopOk \in BOOLEAN : ShutdownStop(t, stopOk))

FairSpecIO == SpecIO /\ FairIO

\* The process has ended, and with it every goroutine and open file.
Ended == proc # "running"

\* C25: once the per-task context is cancelled, every proxy that has opened
\* its fifo and its connection eventually has both closed and its copy
\* ended, and every state monitor that holds the context eventually stops
\* (or the process ends); a monitor that has stopped does nothing and
\* publishes nothing any more; a proxy with an empty path opens nothing;
\* a proxy whose dial failed has closed the fifo it opened; the goroutine
\* that waited for the context has, once done, closed both endpoints.
C25_CancelEndsProxiesAndMonitor ==
    /\ \A p \in Streams :
          (proxies[p].conn # "none" /\ proxies[p].mctx \in cancelled)
             ~> (Ended \/ (proxies[p].conn = "closed" /\ proxies[p].fifo = "closed"
                            /\ proxies[p].copy = "ended"))
    /\ \A t \in Monitors :
          (th[t].op = "monitorState" /\ th[t].mctx # 0 /\ th[t].mctx \in cancelled)
             ~> (Ended \/ th[t].pc = "done")
    /\ [][\A t \in Monitors : th[t].pc = "done" => th'[t] = th[t]]_vars
    /\ [](\A p \in Streams :
            /\ proxies[p].path = "" => (proxies[p].fifo = "none" /\ proxies[p].conn = "none")
            /\ (proxies[p].pc = "returned" /\ proxies[p].fifo # "none"
                  /\ proxies[p].conn = "none") => proxies[p].fifo = "closed"
            /\ proxies[p].closer = "done"
                  => (proxies[p].conn = "closed" /\ proxies[p].fifo = "closed"))

\* the context was cancelled by a Kill while the process lives: a proxy has
\* closed both endpoints and ended its copy, the monitor has stopped on the
\* cancellation, and another proxy's dial had failed
C25_Witness ==
    /\ proc = "running"
    /\ 1 \in cancelled
    /\ \E p \in Streams :
          /\ proxies[p].closer = "done"
          /\ proxies[p].conn = "closed" /\ proxies[p].fifo = "closed"
          /\ proxies[p].copy = "ended"
    /\ \E p \in Streams : proxies[p].pc = "returned" /\ proxies[p].fifo = "closed"
                             /\ proxies[p].conn = "none"
    /\ \E t \in Monitors : th[t].pc = "done" /\ th[t].ret = "cancelled"
====
